---- MODULE Spec2Model ----
(***************************************************************************)
(* Abalone rules engine (klahrich/abalone): board geometry, board state,   *)
(* the inline/broadside move model with its change-log undo, the move      *)
(* generator and the terminal test, as a state machine over one Game.      *)
(***************************************************************************)
EXTENDS Integers, Sequences, FiniteSets, TLC

VARIABLES board, turn, board_hash, applied, history, outcome, depth,
          heuristic_table, computed_from, undone, schedule

\* The memo table of scoring, and for each of its keys the board on which
\* the entry was computed.
memo == <<heuristic_table, computed_from>>

\* undone: the Move instance the caller got back from its last undo and still
\* holds, or NoMove.
\* schedule: when several workers share the game, who applied each of the
\* moves now applied, whether an undo has run while a later move of another
\* worker was still applied, and the number of moves applied so far.
vars == <<board, turn, board_hash, applied, history, outcome, depth, memo, undone, schedule>>

(***************************************************************************)
(* Bounds of the model.                                                    *)
(***************************************************************************)
\* Longest stack of applied, not yet undone moves (the search depth).
MaxDepth == 2
\* Callers draw the spaces of their moves from row A, columns 1..MaxCol.
MaxCol == 4
\* Length of the colour patterns of the position family.
MaxLen == 5
\* Largest marble count in a score handed to get_winner.
MaxCount == 14
\* Most marbles of one colour already pushed off in the positions is_over is
\* asked about.
MaxLost == 6
\* Width of the modelled position hash: ten of the bits of hash().
HashMod == 1024
\* Most entries of the memo table of scoring.
MaxMemo == 2
\* Most marbles of one colour already pushed off in the positions scoring is
\* asked about.
MaxMemoLost == 1
\* Longest change-log of a Move instance that is applied once more.
MaxLog == 3

\* Moves the workers apply to the shared game in one run.
MaxApplies == 3

\* Spaces of a family line on which the positions of play are coloured.
MaxPattern == 3

(***************************************************************************)
(* abalone_ui.py: the heuristic weights handed to Game                     *)
(***************************************************************************)
\* weights['count_threes'].
weight_count_threes == 5
\* weights['count_isolated'].
weight_count_isolated == 10
\* weights['distance_center'] is 2.5: five halves.
weight_distance_center_halves == 5

(***************************************************************************)
(* enums.py                                                                *)
(***************************************************************************)
Player_WHITE == -1
Player_BLACK == 1
Player == {Player_WHITE, Player_BLACK}

Marble_WHITE == Player_WHITE
Marble_BLANK == 0
Marble_BLACK == Player_BLACK
Marble == {Marble_WHITE, Marble_BLANK, Marble_BLACK}

\* A space is <<row, column>>: row 1..9 for the letters A..I, column 1..9 for
\* the digits; OFF is the off-board sentinel.
OFF == <<0, 0>>

\* First and last column of each row A..I (the members of the Space enum).
FirstCol == <<1, 1, 1, 1, 1, 2, 3, 4, 5>>
LastCol == <<5, 6, 7, 8, 9, 9, 9, 9, 9>>

\* The 61 on-board members of Space.
OnBoard == {s \in (1..9) \X (1..9) : FirstCol[s[1]] <= s[2] /\ s[2] <= LastCol[s[1]]}

Space == OnBoard \cup {OFF}

\* Direction, in the enum's definition order.
DirectionSeq == <<"NORTH_EAST", "EAST", "SOUTH_EAST", "SOUTH_WEST", "WEST", "NORTH_WEST">>
Direction == {DirectionSeq[i] : i \in 1..Len(DirectionSeq)}

Rep(m, n) == [i \in 1..n |-> m]

\* InitialPosition: rows I (first) down to A (last).
DEFAULT ==
    << Rep(Marble_WHITE, 5),
       Rep(Marble_WHITE, 6),
       Rep(Marble_BLANK, 2) \o Rep(Marble_WHITE, 3) \o Rep(Marble_BLANK, 2),
       Rep(Marble_BLANK, 8),
       Rep(Marble_BLANK, 9),
       Rep(Marble_BLANK, 8),
       Rep(Marble_BLANK, 2) \o Rep(Marble_BLACK, 3) \o Rep(Marble_BLANK, 2),
       Rep(Marble_BLACK, 6),
       Rep(Marble_BLACK, 5) >>

GERMAN_DAISY ==
    << Rep(Marble_BLANK, 5),
       Rep(Marble_WHITE, 2) \o Rep(Marble_BLANK, 2) \o Rep(Marble_BLACK, 2),
       Rep(Marble_WHITE, 3) \o Rep(Marble_BLANK, 1) \o Rep(Marble_BLACK, 3),
       <<Marble_BLANK>> \o Rep(Marble_WHITE, 2) \o Rep(Marble_BLANK, 2)
           \o Rep(Marble_BLACK, 2) \o <<Marble_BLANK>>,
       Rep(Marble_BLANK, 9),
       <<Marble_BLANK>> \o Rep(Marble_BLACK, 2) \o Rep(Marble_BLANK, 2)
           \o Rep(Marble_WHITE, 2) \o <<Marble_BLANK>>,
       Rep(Marble_BLACK, 3) \o Rep(Marble_BLANK, 1) \o Rep(Marble_WHITE, 3),
       Rep(Marble_BLACK, 2) \o Rep(Marble_BLANK, 2) \o Rep(Marble_WHITE, 2),
       Rep(Marble_BLANK, 5) >>

BELGIAN_DAISY ==
    << Rep(Marble_WHITE, 2) \o <<Marble_BLANK>> \o Rep(Marble_BLACK, 2),
       Rep(Marble_WHITE, 3) \o Rep(Marble_BLACK, 3),
       <<Marble_BLANK>> \o Rep(Marble_WHITE, 2) \o <<Marble_BLANK>>
           \o Rep(Marble_BLACK, 2) \o <<Marble_BLANK>>,
       Rep(Marble_BLANK, 8),
       Rep(Marble_BLANK, 9),
       Rep(Marble_BLANK, 8),
       <<Marble_BLANK>> \o Rep(Marble_BLACK, 2) \o <<Marble_BLANK>>
           \o Rep(Marble_WHITE, 2) \o <<Marble_BLANK>>,
       Rep(Marble_BLACK, 3) \o Rep(Marble_WHITE, 3),
       Rep(Marble_BLACK, 2) \o <<Marble_BLANK>> \o Rep(Marble_WHITE, 2) >>

InitialPosition == {DEFAULT, GERMAN_DAISY, BELGIAN_DAISY}

(***************************************************************************)
(* utils.py: board geometry                                                *)
(***************************************************************************)
\* _neighbor: one step on the coordinate grid, OFF when it leaves the enum.
_neighbor(space, direction) ==
    IF space = OFF THEN OFF
    ELSE LET xi == space[1]
             yi == space[2]
             t == CASE direction = "NORTH_EAST" -> <<xi + 1, yi + 1>>
                    [] direction = "EAST"       -> <<xi, yi + 1>>
                    [] direction = "SOUTH_EAST" -> <<xi - 1, yi>>
                    [] direction = "SOUTH_WEST" -> <<xi - 1, yi - 1>>
                    [] direction = "WEST"       -> <<xi, yi - 1>>
                    [] direction = "NORTH_WEST" -> <<xi + 1, yi>>
         IN IF t[1] < 1 \/ t[1] > 9 \/ t[2] < 1 \/ t[2] > 9 \/ t \notin OnBoard
            THEN OFF
            ELSE t

\* Utils.neighbors_table: the adjacency table loaded once at class-load time;
\* its entries are those of the coordinate rule _neighbor.
neighbors_table == [s \in Space, d \in Direction |-> _neighbor(s, d)]

\* Utils.neighbor reading the EAST entry where the WEST entry is asked for.
neighbor_EastForWest(space, direction) ==
    neighbors_table[space, IF direction = "WEST" THEN "EAST" ELSE direction]

\* Utils.neighbor: a lookup in the table.
neighbor(space, direction) == neighbors_table[space, direction]

RECURSIVE ExtendToOff(_, _)
\* The loop of line_to_edge: append neighbours until the last one is OFF.
ExtendToOff(line, direction) ==
    IF line[Len(line)] = OFF THEN line
    ELSE ExtendToOff(Append(line, neighbor(line[Len(line)], direction)), direction)

\* line_to_edge: from_space and the spaces after it up to the edge, OFF popped.
line_to_edge_fn ==
    [s \in OnBoard, d \in Direction |->
        LET full == ExtendToOff(<<s>>, d) IN SubSeq(full, 1, Len(full) - 1)]

line_to_edge(from_space, direction) == line_to_edge_fn[from_space, direction]

\* The (None, None) result of line_from_to.
NoLine == [line |-> <<>>, direction |-> "None"]

RECURSIVE WalkTo(_, _, _)
\* The inner while loop of line_from_to for one direction: the line that ends
\* at to_space, or <<>> when the walk reaches OFF first.
WalkTo(line, direction, to_space) ==
    IF line[Len(line)] = OFF THEN <<>>
    ELSE LET next_space == neighbor(line[Len(line)], direction)
             line2 == Append(line, next_space)
         IN IF next_space = to_space THEN line2
            ELSE WalkTo(line2, direction, to_space)

RECURSIVE TryDirections_FirstThree(_, _, _)
\* A for loop that tries the first three directions only.
TryDirections_FirstThree(from_space, to_space, i) ==
    IF i > 3 THEN NoLine
    ELSE LET w == WalkTo(<<from_space>>, DirectionSeq[i], to_space)
         IN IF w # <<>> THEN [line |-> w, direction |-> DirectionSeq[i]]
            ELSE TryDirections_FirstThree(from_space, to_space, i + 1)

RECURSIVE TryDirections(_, _, _)
\* The for loop of line_from_to over Direction, in enum order.
TryDirections(from_space, to_space, i) ==
    IF i > Len(DirectionSeq) THEN NoLine
    ELSE LET w == WalkTo(<<from_space>>, DirectionSeq[i], to_space)
         IN IF w # <<>> THEN [line |-> w, direction |-> DirectionSeq[i]]
            ELSE TryDirections(from_space, to_space, i + 1)

line_from_to_fn == [a \in OnBoard, b \in OnBoard |-> TryDirections(a, b, 1)]

\* line_from_to walking from to_space towards from_space.
line_from_to_Backwards(from_space, to_space) == line_from_to_fn[to_space, from_space]

\* line_from_to for on-board arguments (an OFF argument raises; the callers
\* modelled here test for OFF first).
line_from_to(from_space, to_space) == line_from_to_fn[from_space, to_space]

\* abs().
Abs(n) == IF n < 0 THEN 0 - n ELSE n

\* What a utils function hands back: a value, or an exception in flight.
Returned(v) == [exc |-> "none", value |-> v]
Thrown(e) == [exc |-> e, value |-> 0]

\* The sum at the end of distance: the first operand that raises wins.
SumOf(d1, d2) ==
    IF d1.exc # "none" THEN d1
    ELSE IF d2.exc # "none" THEN d2
    ELSE Returned(d1.value + d2.value)

\* distance with the same-diagonal test applied to every pair.
distance_Diagonal(space1, space2) == Returned(Abs(space1[1] - space2[1]))

RECURSIVE distance(_, _)
\* distance for on-board spaces.  A space <<x, y>> is the member named by the
\* letter of row x and the digit y, so differences of ord() are differences
\* of coordinates; Space[name] raises KeyError when no member has the name.
distance(space1, space2) ==
    IF space1[1] = space2[1] THEN Returned(Abs(space1[2] - space2[2]))
    ELSE IF space1[2] = space2[2] THEN Returned(Abs(space1[1] - space2[1]))
    ELSE IF space1[1] - space2[1] = space1[2] - space2[2]
    THEN Returned(Abs(space1[1] - space2[1]))
    ELSE LET top == IF space1[1] > space2[1] THEN space1 ELSE space2
             bottom == IF space1[1] > space2[1] THEN space2 ELSE space1
             space_tmp == IF top[2] < bottom[2]
                          THEN <<top[1], bottom[2]>>
                          ELSE <<top[1], bottom[2] + top[1] - bottom[1]>>
         IN IF space_tmp \notin OnBoard THEN Thrown("KeyError")
            ELSE SumOf(distance(space1, space_tmp), distance(space_tmp, space2))

\* distance_from_center.
distance_from_center(space) == distance(space, <<5, 5>>)

\* Indices without the offset of the rows F to I.
space_to_board_indices_NoOffset(space) == <<9 - space[1], space[2] - 1>>

\* space_to_board_indices: 0-based (x, y) into the jagged grid.
space_to_board_indices(space) ==
    LET x == 9 - space[1]
        y == space[2] - 1
    IN IF x <= 3 THEN <<x, y - (4 - x)>> ELSE <<x, y>>

marble_of_player(player) ==
    IF player = Player_WHITE THEN Marble_WHITE ELSE Marble_BLACK

\* The None of get_winner.
NoWinner == 0

\* get_winner with the two branches of its conditional expression exchanged.
get_winner_BlackFirst(score) ==
    IF score[1] = 8 \/ score[2] = 8
    THEN (IF score[1] = 8 THEN Player_BLACK ELSE Player_WHITE)
    ELSE NoWinner

\* A get_winner that waits for a count of seven.
get_winner_AtSeven(score) ==
    IF score[1] = 7 \/ score[2] = 7
    THEN (IF score[1] = 7 THEN Player_WHITE ELSE Player_BLACK)
    ELSE NoWinner

\* utils.get_winner; score is (black, white).
get_winner(score) ==
    IF score[1] = 8 \/ score[2] = 8
    THEN (IF score[1] = 8 THEN Player_WHITE ELSE Player_BLACK)
    ELSE NoWinner

(***************************************************************************)
(* game.py: board state                                                    *)
(***************************************************************************)
\* Game.get_marble for an on-board space.
get_marble(b, space) ==
    LET ix == space_to_board_indices(space) IN b[ix[1] + 1][ix[2] + 1]

\* Game.set_marble for an on-board space.
set_marble(b, space, marble) ==
    LET ix == space_to_board_indices(space)
    IN [b EXCEPT ![ix[1] + 1][ix[2] + 1] = marble]

\* Number of cells of the grid that hold marble m.
CountMarble(b, m) ==
    Cardinality({ij \in (1..9) \X (1..9) : ij[2] <= Len(b[ij[1]]) /\ b[ij[1]][ij[2]] = m})

\* Game.get_score: (black, white).
get_score(b) == <<CountMarble(b, Marble_BLACK), CountMarble(b, Marble_WHITE)>>

\* Game.not_in_turn_player.
not_in_turn_player(t) == IF t = Player_WHITE THEN Player_BLACK ELSE Player_WHITE

RECURSIVE HashTuple(_, _, _)
\* hash() of a tuple whose items hash to the numbers in items: an order
\* sensitive mix, reduced to the modelled width.
HashTuple(items, i, acc) ==
    IF i > Len(items) THEN acc
    ELSE HashTuple(items, i + 1, (acc * 1009 + items[i]) % HashMod)

\* hash() of a Marble member.
HashMarble(m) == m + 2

\* hash(tuple(tuple(l) for l in board)).
HashBoard(b) ==
    HashTuple([x \in 1..Len(b) |->
                  HashTuple([y \in 1..Len(b[x]) |-> HashMarble(b[x][y])], 1, 7)],
              1, 7)

RECURSIVE CountRun(_, _, _, _)
\* A while loop of inline_marbles_nums: the number of consecutive spaces of
\* line, from position start + 1 on, that hold marble m.
CountRun(b, line, start, m) ==
    IF start < Len(line) /\ get_marble(b, line[start + 1]) = m
    THEN 1 + CountRun(b, line, start + 1, m)
    ELSE 0

\* Game.inline_marbles_nums: (own_marbles_num, opp_marbles_num).
inline_marbles_nums(b, t, line) ==
    LET own_marbles_num == CountRun(b, line, 0, marble_of_player(t))
        opp_marbles_num ==
            CountRun(b, line, own_marbles_num, marble_of_player(not_in_turn_player(t)))
    IN <<own_marbles_num, opp_marbles_num>>

(***************************************************************************)
(* game.py: the move model                                                 *)
(***************************************************************************)
\* MoveInline.__init__ / MoveBroadside.__init__ (Move.__init__: empty cache,
\* board_hash 0).
MoveInline(caboose, direction) ==
    [kind |-> "inline", caboose |-> caboose, direction |-> direction,
     cache |-> <<>>, board_hash |-> 0]

MoveBroadside(boundaries, direction) ==
    [kind |-> "broadside", boundaries |-> boundaries, direction |-> direction,
     cache |-> <<>>, board_hash |-> 0]

\* No instance.
NoMove == [kind |-> "none"]

\* The state _apply works on: the game's board and the move's change-log.
\* exc is "none" while no exception has been raised.
Running(b, cache) == [exc |-> "none", msg |-> "", board |-> b, cache |-> cache]

Raise(st, exc, msg) == [st EXCEPT !.exc = exc, !.msg = msg]

\* Move.save_state: log (space, current marble); get_marble raises on OFF.
save_state(st, space) ==
    IF space = OFF THEN Raise(st, "Exception", "Cannot get state of Space.OFF")
    ELSE [st EXCEPT !.cache = Append(st.cache, <<space, get_marble(st.board, space)>>)]

\* The two calls in the other order: the log receives the marble just written.
SaveAndSet_SetThenSave(st, space, marble) ==
    save_state([st EXCEPT !.board = set_marble(st.board, space, marble)], space)

\* A write that always sets down a blank.
SaveAndSet_WritesBlank(st, space, marble) ==
    [save_state(st, space) EXCEPT !.board = set_marble(st.board, space, Marble_BLANK)]

\* save_state followed by game.set_marble; an exception of save_state ends
\* the pair.
SaveAndSet(st, space, marble) ==
    IF space = OFF THEN save_state(st, space)
    ELSE [save_state(st, space) EXCEPT !.board = set_marble(st.board, space, marble)]

\* A length test that lets a line of four through.
LineTooLong_UpToFour(own_marbles_num) == own_marbles_num > 4

\* The length test of MoveInline._apply (line 94).
LineTooLong(own_marbles_num) == own_marbles_num > 3

\* A strength test that lets an equal opposing run be pushed.
CannotPush_EqualAllowed(own_marbles_num, opp_marbles_num) ==
    opp_marbles_num > own_marbles_num

\* The strength test of MoveInline._apply (line 101).
CannotPush(own_marbles_num, opp_marbles_num) == opp_marbles_num >= own_marbles_num

\* A push that sets down a marble of the mover.
PushedMarble_Own(t) == marble_of_player(t)

\* The marble MoveInline._apply sets on push_to (line 108).
PushedMarble(t) == marble_of_player(not_in_turn_player(t))

\* The sumito block with the write to push_to made before the test of what
\* push_to holds.
InlineSumito_WriteBeforeCheck(st, t, line, own_marbles_num, opp_marbles_num, direction) ==
    IF opp_marbles_num > 0
    THEN IF CannotPush(own_marbles_num, opp_marbles_num)
         THEN Raise(st, "IllegalMoveException",
                    "Only lines that are shorter than the player line can be pushed")
         ELSE LET push_to == neighbor(line[own_marbles_num + opp_marbles_num], direction)
              IN IF push_to # OFF
                 THEN IF get_marble(st.board, push_to) = marble_of_player(t)
                      THEN Raise(SaveAndSet(st, push_to, PushedMarble(t)),
                                 "IllegalMoveException",
                                 "Marbles must be pushed to an empty space or off the board")
                      ELSE SaveAndSet(st, push_to, PushedMarble(t))
                 ELSE st
    ELSE st

\* The sumito block without the test that push_to is on the board.
InlineSumito_PushesToOff(st, t, line, own_marbles_num, opp_marbles_num, direction) ==
    IF opp_marbles_num > 0
    THEN IF CannotPush(own_marbles_num, opp_marbles_num)
         THEN Raise(st, "IllegalMoveException",
                    "Only lines that are shorter than the player line can be pushed")
         ELSE LET push_to == neighbor(line[own_marbles_num + opp_marbles_num], direction)
              IN IF push_to # OFF /\ get_marble(st.board, push_to) = marble_of_player(t)
                 THEN Raise(st, "IllegalMoveException",
                            "Marbles must be pushed to an empty space or off the board")
                 ELSE SaveAndSet(st, push_to, PushedMarble(t))
    ELSE st

\* The sumito block of MoveInline._apply (lines 100-109).
InlineSumito(st, t, line, own_marbles_num, opp_marbles_num, direction) ==
    IF opp_marbles_num > 0
    THEN IF CannotPush(own_marbles_num, opp_marbles_num)
         THEN Raise(st, "IllegalMoveException",
                    "Only lines that are shorter than the player line can be pushed")
         ELSE LET push_to == neighbor(line[own_marbles_num + opp_marbles_num], direction)
              IN IF push_to # OFF
                 THEN IF get_marble(st.board, push_to) = marble_of_player(t)
                      THEN Raise(st, "IllegalMoveException",
                                 "Marbles must be pushed to an empty space or off the board")
                      ELSE SaveAndSet(st, push_to, PushedMarble(t))
                 ELSE st
    ELSE st

\* An edge test that lets a single marble through.
OwnRunAtEdge_RunsOnly(own_marbles_num, line) ==
    own_marbles_num = Len(line) /\ own_marbles_num > 1

\* The test of MoveInline._apply (line 97): the mover's run fills the line up
\* to the edge of the board.
OwnRunAtEdge(own_marbles_num, line) == own_marbles_num = Len(line)

\* MoveInline._apply.
MoveInline_apply(b, t, mv) ==
    LET st0 == Running(b, mv.cache)
    IN IF mv.caboose = OFF
       THEN Raise(st0, "Exception", "Cannot get state of Space.OFF")
       ELSE IF get_marble(b, mv.caboose) # marble_of_player(t)
       THEN Raise(st0, "IllegalMoveException", "Only own marbles may be moved")
       ELSE
         LET line == line_to_edge(mv.caboose, mv.direction)
             nums == inline_marbles_nums(b, t, line)
             own_marbles_num == nums[1]
             opp_marbles_num == nums[2]
         IN IF LineTooLong(own_marbles_num)
            THEN Raise(st0, "IllegalMoveException",
                       "Only lines of up to three marbles may be moved")
            ELSE IF OwnRunAtEdge(own_marbles_num, line)
            THEN Raise(st0, "IllegalMoveException",
                       "Own marbles must not be moved off the board")
            ELSE
              LET st1 == InlineSumito(st0, t, line, own_marbles_num, opp_marbles_num,
                                      mv.direction)
              IN IF st1.exc # "none" THEN st1
                 ELSE IF own_marbles_num + 1 > Len(line)
                 THEN Raise(st1, "IndexError", "list index out of range")
                 ELSE LET st2 == SaveAndSet(st1, line[own_marbles_num + 1],
                                            marble_of_player(t))
                      IN SaveAndSet(st2, mv.caboose, Marble_BLANK)

\* A destination test that only looks for the edge of the board.
DestinationBlocked_EdgeOnly(b, destination_space) == destination_space = OFF

\* The destination test of MoveBroadside._apply (line 140).
DestinationBlocked(b, destination_space) ==
    destination_space = OFF \/ get_marble(b, destination_space) # Marble_BLANK

RECURSIVE BroadsideCheck(_, _, _, _, _)
\* The first for loop of MoveBroadside._apply (lines 137-142): the exception
\* of the first marble that fails, or st.
BroadsideCheck(st, t, marbles, direction, i) ==
    IF i > Len(marbles) THEN st
    ELSE IF get_marble(st.board, marbles[i]) # marble_of_player(t)
    THEN Raise(st, "IllegalMoveException", "Only own marbles may be moved")
    ELSE LET destination_space == neighbor(marbles[i], direction)
         IN IF DestinationBlocked(st.board, destination_space)
            THEN Raise(st, "IllegalMoveException",
                       "With a broadside move, marbles can only be moved to empty spaces")
            ELSE BroadsideCheck(st, t, marbles, direction, i + 1)

RECURSIVE BroadsideShift_LeavesSource(_, _, _, _, _)
\* A second loop that sets the destinations and never clears the sources.
BroadsideShift_LeavesSource(st, t, marbles, direction, i) ==
    IF i > Len(marbles) THEN st
    ELSE BroadsideShift_LeavesSource(
             SaveAndSet(save_state(st, marbles[i]),
                        neighbor(marbles[i], direction), marble_of_player(t)),
             t, marbles, direction, i + 1)

RECURSIVE BroadsideShift(_, _, _, _, _)
\* The second for loop of MoveBroadside._apply (lines 143-149).
BroadsideShift(st, t, marbles, direction, i) ==
    IF i > Len(marbles) THEN st
    ELSE LET cleared == SaveAndSet(st, marbles[i], Marble_BLANK)
             neighbor_tmp == neighbor(marbles[i], direction)
         IN BroadsideShift(SaveAndSet(cleared, neighbor_tmp, marble_of_player(t)),
                           t, marbles, direction, i + 1)

\* MoveBroadside._apply.
MoveBroadside_apply(b, t, mv) ==
    LET st0 == Running(b, mv.cache)
    IN IF mv.boundaries[1] = OFF \/ mv.boundaries[2] = OFF
       THEN Raise(st0, "IllegalMoveException",
                  "Elements of boundaries must not be Space.OFF")
       ELSE
         LET lft == line_from_to(mv.boundaries[1], mv.boundaries[2])
             marbles == lft.line
             direction1 == lft.direction
         IN IF lft = NoLine \/ ~(Len(marbles) = 2 \/ Len(marbles) = 3)
            THEN Raise(st0, "IllegalMoveException",
                       "Only two or three neighboring marbles may be moved with a broadside move")
            ELSE
              LET direction2 == line_from_to(mv.boundaries[2], mv.boundaries[1]).direction
              IN IF mv.direction = direction1 \/ mv.direction = direction2
                 THEN Raise(st0, "IllegalMoveException",
                            "The direction of a broadside move must be sideways")
                 ELSE LET st1 == BroadsideCheck(st0, t, marbles, mv.direction, 1)
                      IN IF st1.exc # "none" THEN st1
                         ELSE BroadsideShift(st1, t, marbles, mv.direction, 1)

\* Dispatch of move._apply(game) on the class of the move.
_apply(b, t, mv) ==
    IF mv.kind = "inline" THEN MoveInline_apply(b, t, mv)
    ELSE MoveBroadside_apply(b, t, mv)

RECURSIVE Replay(_, _, _)
\* The loop of Move.undo: set_marble for each logged pair, front to back.
Replay(b, cache, i) ==
    IF i > Len(cache) THEN b
    ELSE Replay(set_marble(b, cache[i][1], cache[i][2]), cache, i + 1)

\* An end of Move.apply that leaves the hash of the game as it was.
Applied_KeepsHash(st, h, mv) ==
    [exc |-> st.exc, msg |-> st.msg, board |-> st.board, board_hash |-> h,
     move |-> [mv EXCEPT !.board_hash = h, !.cache = st.cache]]

\* The end of Move.apply, _apply having ended as st: the hash of the game is
\* recomputed only when _apply returned; the move keeps the hash h it
\* remembered and the change-log.
Applied(st, h, mv) ==
    [exc |-> st.exc, msg |-> st.msg, board |-> st.board,
     board_hash |-> IF st.exc = "none" THEN HashBoard(st.board) ELSE h,
     move |-> [mv EXCEPT !.board_hash = h, !.cache = st.cache]]

\* Move.apply on game state (board b, hash h, turn t): the move remembers the
\* hash, then _apply runs.
apply(b, h, t, mv) == Applied(_apply(b, t, [mv EXCEPT !.board_hash = h]), h, mv)

\* An undo that replays the change-log and leaves the hash as it is.
undo_KeepsHash(b, mv) == [board |-> Replay(b, mv.cache, 1), board_hash |-> HashBoard(b)]

\* Move.undo: replay the change-log, then restore the remembered hash.
undo(b, mv) == [board |-> Replay(b, mv.cache, 1), board_hash |-> mv.board_hash]

\* create_move: a single space makes an inline move, a pair a broadside move.
\* The marbles argument is <<space>> or <<space, space>>.
create_move(marbles, direction) ==
    IF Len(marbles) = 1 THEN MoveInline(marbles[1], direction)
    ELSE MoveBroadside(marbles, direction)

(***************************************************************************)
(* game.py: legality predicates and the move generator                     *)
(***************************************************************************)
\* Game.is_illegal_move_inline (caboose on-board).
is_illegal_move_inline(b, t, caboose, direction) ==
    IF get_marble(b, caboose) # marble_of_player(t) THEN TRUE
    ELSE LET line == line_to_edge(caboose, direction)
             nums == inline_marbles_nums(b, t, line)
             own_marbles_num == nums[1]
             opp_marbles_num == nums[2]
         IN IF own_marbles_num > 3 THEN TRUE
            ELSE IF own_marbles_num = Len(line) THEN TRUE
            ELSE IF opp_marbles_num > 0
                 THEN IF opp_marbles_num >= own_marbles_num THEN TRUE
                      ELSE LET push_to ==
                                   neighbor(line[own_marbles_num + opp_marbles_num], direction)
                           IN push_to # OFF /\ get_marble(b, push_to) = marble_of_player(t)
                 ELSE FALSE

\* Game.is_illegal_move_broadside.
is_illegal_move_broadside(b, t, boundaries, direction) ==
    IF boundaries[1] = OFF \/ boundaries[2] = OFF THEN TRUE
    ELSE LET lft == line_from_to(boundaries[1], boundaries[2])
             marbles == lft.line
         IN IF lft = NoLine \/ ~(Len(marbles) = 2 \/ Len(marbles) = 3) THEN TRUE
            ELSE IF direction = lft.direction
                    \/ direction = line_from_to(boundaries[2], boundaries[1]).direction
            THEN TRUE
            ELSE \E i \in 1..Len(marbles) :
                    \/ get_marble(b, marbles[i]) # marble_of_player(t)
                    \/ neighbor(marbles[i], direction) = OFF
                    \/ get_marble(b, neighbor(marbles[i], direction)) # Marble_BLANK

\* Game.is_illegal_move: dispatch on the shape of marbles.
is_illegal_move(b, t, marbles, direction) ==
    IF Len(marbles) = 1 THEN is_illegal_move_inline(b, t, marbles[1], direction)
    ELSE is_illegal_move_broadside(b, t, marbles, direction)

\* Iteration order of the Space enum without OFF: A1..A5, B1..B6, ..., I5..I9.
RowSpaces(r) == [i \in 1..(LastCol[r] - FirstCol[r] + 1) |-> <<r, FirstCol[r] + i - 1>>]

SpaceSeq ==
    RowSpaces(1) \o RowSpaces(2) \o RowSpaces(3) \o RowSpaces(4) \o RowSpaces(5)
        \o RowSpaces(6) \o RowSpaces(7) \o RowSpaces(8) \o RowSpaces(9)

\* A scan that stops at the first neighbour: no line of three is yielded.
LinesAlong_PairsOnly(b, player, space, direction) ==
    LET neighbor1 == neighbor(space, direction)
    IN IF neighbor1 # OFF /\ get_marble(b, neighbor1) = marble_of_player(player)
       THEN <<(<<space, neighbor1>>)>>
       ELSE <<>>

\* The yields of generate_marble_lines for one space and one scan direction.
LinesAlong(b, player, space, direction) ==
    LET neighbor1 == neighbor(space, direction)
    IN IF neighbor1 # OFF /\ get_marble(b, neighbor1) = marble_of_player(player)
       THEN LET neighbor2 == neighbor(neighbor1, direction)
            IN <<(<<space, neighbor1>>)>> \o
               (IF neighbor2 # OFF /\ get_marble(b, neighbor2) = marble_of_player(player)
                THEN <<(<<space, neighbor2>>)>> ELSE <<>>)
       ELSE <<>>

\* The yields of generate_marble_lines for one space.
LinesAt(b, player, space) ==
    IF get_marble(b, space) # marble_of_player(player) THEN <<>>
    ELSE <<(<<space>>)>> \o LinesAlong(b, player, space, "NORTH_WEST")
             \o LinesAlong(b, player, space, "NORTH_EAST")
             \o LinesAlong(b, player, space, "EAST")

RECURSIVE LinesFrom(_, _, _)
LinesFrom(b, player, k) ==
    IF k > Len(SpaceSeq) THEN <<>>
    ELSE LinesAt(b, player, SpaceSeq[k]) \o LinesFrom(b, player, k + 1)

\* Game.generate_marble_lines: everything the generator yields, in order.
generate_marble_lines(b, player) == LinesFrom(b, player, 1)

\* What a function call returns: a value, or None.
PyValue(v) == [is_none |-> FALSE, value |-> v]
PyNone == [is_none |-> TRUE, value |-> <<>>]

\* Game.generate_own_marble_lines: the body calls generate_marble_lines and has
\* no return statement, so the call returns None.
generate_own_marble_lines(b, t) ==
    LET unused == generate_marble_lines(b, t) IN PyNone

\* The nested for loops of generate_legal_moves over the yielded lines and,
\* for each, the six directions, in order: a move for every pair that
\* is_illegal_move does not reject.
MovesOver(b, t, lines) ==
    LET n == Len(DirectionSeq)
        pairs == [k \in 1..(Len(lines) * n) |->
                     <<lines[((k - 1) \div n) + 1], DirectionSeq[((k - 1) % n) + 1]>>]
        Kept(p) == ~is_illegal_move(b, t, p[1], p[2])
        kept == SelectSeq(pairs, Kept)
    IN [i \in 1..Len(kept) |-> create_move(kept[i][1], kept[i][2])]

\* Game.generate_legal_moves, run to exhaustion: iterating over None raises
\* TypeError before anything is yielded.
generate_legal_moves(b, t) ==
    LET lines == generate_own_marble_lines(b, t)
    IN IF lines.is_none
       THEN [exc |-> "TypeError", msg |-> "NoneType object is not iterable", value |-> <<>>]
       ELSE [exc |-> "none", msg |-> "", value |-> MovesOver(b, t, lines.value)]

\* Game.possible_moves: list(self.generate_legal_moves()).
possible_moves(b, t) == generate_legal_moves(b, t)

\* Game.is_over.
is_over(b) == get_winner(get_score(b)) # NoWinner

(***************************************************************************)
(* game.py: scoring and its memo table                                     *)
(***************************************************************************)
\* Game.count_neighbors: (friends, adversaries) among the six neighbours; the
\* exception get_marble raises for OFF is swallowed by the except clause.
count_neighbors(b, space) ==
    LET marble == get_marble(b, space)
        around == [d \in {e \in Direction : neighbor(space, e) # OFF} |->
                      get_marble(b, neighbor(space, d))]
    IN <<Cardinality({d \in DOMAIN around :
                         around[d] # Marble_BLANK /\ around[d] = marble}),
         Cardinality({d \in DOMAIN around :
                         around[d] # Marble_BLANK /\ around[d] # marble})>>

\* Game._is_isolated.
_is_isolated(b, space) ==
    LET n == count_neighbors(b, space) IN n[1] = 0 /\ n[2] >= 1

\* The list comprehension of _heuristic_score: the spaces that hold a marble
\* of player.
OwnSpaces(b, player) == {s \in OnBoard : get_marble(b, s) = marble_of_player(player)}

\* A count of every yielded pair, whatever the distance of its ends.
CountThrees_EveryPair(lines) ==
    Cardinality({k \in 1..Len(lines) : Len(lines[k]) = 2})

\* The inner loop of _heuristic_score: the yielded pairs whose ends lie two
\* apart.  The ends of a yielded pair share a line, where distance returns.
CountThrees(lines) ==
    Cardinality({k \in 1..Len(lines) :
                    /\ Len(lines[k]) = 2
                    /\ distance(lines[k][1], lines[k][2]) = Returned(2)})

RECURSIVE SumDistanceCenter(_, _, _)
\* The running sum distance_center += distance_from_center(space), over the
\* spaces of player in the order of the enum.  distance to E5 always returns.
SumDistanceCenter(b, player, k) ==
    IF k > Len(SpaceSeq) THEN 0
    ELSE (IF get_marble(b, SpaceSeq[k]) = marble_of_player(player)
          THEN distance_from_center(SpaceSeq[k]).value ELSE 0)
         + SumDistanceCenter(b, player, k + 1)

\* A float the code computes, kept exact as numerator over denominator.
Rat(n, d) == <<n, d>>
RatMinus(p, q) == Rat(p[1] * q[2] - q[1] * p[2], p[2] * q[2])
IntPlusRat(i, q) == Rat(i * q[2] + q[1], q[2])

\* The value _heuristic_score returns, from what its loop has gathered.
HeuristicValue(count_threes, count_isolated, distance_center, total_marbles) ==
    IF total_marbles = 0 THEN Thrown("ZeroDivisionError")
    ELSE Returned(Rat((count_threes * weight_count_threes
                          - count_isolated * weight_count_isolated) * 2 * total_marbles
                         - distance_center * weight_distance_center_halves,
                      2 * total_marbles))

\* Game._heuristic_score(player); the division raises when player has no
\* marble left.
_heuristic_score(b, player) ==
    HeuristicValue(CountThrees(generate_marble_lines(b, player)),
                   Cardinality({s \in OwnSpaces(b, player) : _is_isolated(b, s)}),
                   SumDistanceCenter(b, player, 1),
                   Cardinality(OwnSpaces(b, player)))

\* Game._count_threes: the same loop as a method of its own.
_count_threes(b, player) == CountThrees(generate_marble_lines(b, player))

\* The difference at the end of heuristic_score; black is computed first.
HeuristicDifference(black, white) ==
    IF black.exc # "none" THEN black
    ELSE IF white.exc # "none" THEN white
    ELSE Returned(RatMinus(black.value, white.value))

\* Game.heuristic_score.
heuristic_score(b) ==
    HeuristicDifference(_heuristic_score(b, Player_BLACK),
                        _heuristic_score(b, Player_WHITE))

\* score_raw of scoring.
score_raw(b) == (get_score(b)[1] - get_score(b)[2]) * 150

\* The miss branch of scoring storing score_adjusted in the table.
ScoringMiss_StoresAdjusted(raw, h, table, h_score) ==
    IF h_score.exc # "none"
    THEN [exc |-> h_score.exc, value |-> <<>>, table |-> table]
    ELSE [exc |-> "none", value |-> IntPlusRat(raw, h_score.value),
          table |-> (h :> IntPlusRat(raw, h_score.value)) @@ table]

\* A miss branch that starts the table afresh with the new entry.
ScoringMiss_ForgetsOthers(raw, h, table, h_score) ==
    IF h_score.exc # "none"
    THEN [exc |-> h_score.exc, value |-> <<>>, table |-> table]
    ELSE [exc |-> "none", value |-> IntPlusRat(raw, h_score.value),
          table |-> (h :> h_score.value)]

\* The miss branch of scoring, heuristic_score having ended as h_score: the
\* adjusted score is returned and h_score stored under the hash.
ScoringMiss(raw, h, table, h_score) ==
    IF h_score.exc # "none"
    THEN [exc |-> h_score.exc, value |-> <<>>, table |-> table]
    ELSE [exc |-> "none", value |-> IntPlusRat(raw, h_score.value),
          table |-> (h :> h_score.value) @@ table]

\* Game.scoring on board b with hash h and memo table table.
scoring(b, h, table) ==
    IF h \in DOMAIN table
    THEN [exc |-> "none", value |-> IntPlusRat(score_raw(b), table[h]), table |-> table]
    ELSE ScoringMiss(score_raw(b), h, table, heuristic_score(b))

(***************************************************************************)
(* The state machine                                                       *)
(***************************************************************************)
\* outcome: what the last call handed back to its caller and the caller has
\* not yet consumed: a returned value or an exception in flight.
Idle == [op |-> "none", exc |-> "none", msg |-> "", arg |-> <<>>, value |-> <<>>]

\* Spaces callers draw their moves from: the first spaces of row A, and OFF.
InputSpaces == {s \in OnBoard : s[1] = 1 /\ s[2] <= MaxCol} \cup {OFF}

\* A space no straight line joins to s: one step north-east, then one east.
Bent(s) == _neighbor(_neighbor(s, "NORTH_EAST"), "EAST")

\* Arguments of create_move: a space, or a pair of boundaries of which one is
\* A1 and the other an input space or a space off the lines through A1.
InputMarbles ==
    {<<s>> : s \in InputSpaces}
        \cup {<<(<<1, 1>>), s>> : s \in InputSpaces}
        \cup {<<s, (<<1, 1>>)>> : s \in InputSpaces}
        \cup {<<(<<1, 1>>), Bent(<<1, 1>>)>>}

Scores == (0..MaxCount) \X (0..MaxCount)

\* One caller: nothing is scheduled.
NoSchedule == [owner |-> <<>>, crossed |-> FALSE, applies |-> 0]

Snapshot == [board |-> board, board_hash |-> board_hash, turn |-> turn]

\* Game.__init__ with one of the three layouts and either first_turn.
Init ==
    /\ board \in InitialPosition
    /\ turn \in Player
    /\ board_hash = HashBoard(board)
    /\ applied = <<>>
    /\ history = <<>>
    /\ outcome = Idle
    /\ depth = MaxDepth
    /\ heuristic_table = <<>>
    /\ computed_from = <<>>
    /\ undone = NoMove
    /\ schedule = NoSchedule

\* The empty grid.
EmptyBoard == [x \in 1..Len(DEFAULT) |-> Rep(Marble_BLANK, Len(DEFAULT[x]))]

\* The lines the position family lays its colour patterns along: the three
\* lines that leave A1.
FamilyLines ==
    {line_to_edge(<<1, 1>>, "EAST"), line_to_edge(<<1, 1>>, "NORTH_EAST"),
     line_to_edge(<<1, 1>>, "NORTH_WEST")}

RECURSIVE Lay(_, _, _, _)
\* b with the marbles of pattern set on the first spaces of line.
Lay(b, line, pattern, i) ==
    IF i > Len(pattern) \/ i > Len(line) THEN b
    ELSE Lay(set_marble(b, line[i], pattern[i]), line, pattern, i + 1)

\* Mid-game positions: every colouring of the first MaxLen spaces of a family
\* line, on an otherwise empty board.
FamilyPositions ==
    {Lay(EmptyBoard, line, pattern, 1) :
        line \in FamilyLines, pattern \in [1..MaxLen -> Marble]}

RECURSIVE RemoveFirst(_, _, _, _)
\* b without the first n marbles of colour m, in the order of the Space enum
\* (k is the position in that order).
RemoveFirst(b, m, n, k) ==
    IF n = 0 \/ k > Len(SpaceSeq) THEN b
    ELSE IF get_marble(b, SpaceSeq[k]) = m
         THEN RemoveFirst(set_marble(b, SpaceSeq[k], Marble_BLANK), m, n - 1, k + 1)
         ELSE RemoveFirst(b, m, n, k + 1)

\* Late-game positions: a layout from which up to MaxLost marbles of each
\* colour are gone.
LateBoards ==
    {RemoveFirst(RemoveFirst(ip, Marble_BLACK, i, 1), Marble_WHITE, j, 1) :
        ip \in InitialPosition, i \in 0..MaxLost, j \in 0..MaxLost}

\* A late-game position, about to be asked whether the game is over.
InitScore ==
    /\ board \in LateBoards
    /\ turn \in Player
    /\ board_hash = HashBoard(board)
    /\ applied = <<>>
    /\ history = <<>>
    /\ outcome = Idle
    /\ depth = 0
    /\ heuristic_table = <<>>
    /\ computed_from = <<>>
    /\ undone = NoMove
    /\ schedule = NoSchedule

\* A game that has reached a position of the family, either player to move,
\* about to try one move.
InitPos ==
    /\ board \in FamilyPositions
    /\ turn \in Player
    /\ board_hash = HashBoard(board)
    /\ applied = <<>>
    /\ history = <<>>
    /\ outcome = Idle
    /\ depth = 1
    /\ heuristic_table = <<>>
    /\ computed_from = <<>>
    /\ undone = NoMove
    /\ schedule = NoSchedule

\* A make_move that hands the turn to the opponent when the move applies.
MakeMoveEnds_SwitchesTurn(r, move) ==
    /\ board' = r.board
    /\ board_hash' = r.board_hash
    /\ turn' = IF r.exc = "none" THEN not_in_turn_player(turn) ELSE turn
    /\ IF r.exc = "none"
       THEN /\ applied' = Append(applied, r.move)
            /\ history' = Append(history, Snapshot)
            /\ outcome' = Idle
       ELSE /\ UNCHANGED <<applied, history>>
            /\ outcome' = [op |-> "make_move", exc |-> r.exc, msg |-> r.msg,
                           arg |-> move, value |-> Snapshot]

\* What make_move leaves behind when move.apply(game) ended as r: the game
\* as apply left it, the turn untouched and, when apply raised, the exception
\* on its way to the caller.
MakeMoveEnds(r, move) ==
    /\ board' = r.board
    /\ board_hash' = r.board_hash
    /\ turn' = turn
    /\ IF r.exc = "none"
       THEN /\ applied' = Append(applied, r.move)
            /\ history' = Append(history, Snapshot)
            /\ outcome' = Idle
       ELSE /\ UNCHANGED <<applied, history>>
            /\ outcome' = [op |-> "make_move", exc |-> r.exc, msg |-> r.msg,
                           arg |-> move, value |-> Snapshot]

\* Game.make_move((marbles, direction)): create_move, then move.apply(game).
MakeMove(marbles, direction) ==
    /\ outcome.op = "none"
    /\ Len(applied) < depth
    /\ MakeMoveEnds(apply(board, board_hash, turn, create_move(marbles, direction)),
                    create_move(marbles, direction))
    /\ UNCHANGED <<depth, memo, undone, schedule>>

\* Game.unmake_move(move) on the most recently applied move.
UnmakeMove ==
    /\ outcome.op = "none"
    /\ applied # <<>>
    /\ LET u == undo(board, applied[Len(applied)])
       IN /\ board' = u.board
          /\ board_hash' = u.board_hash
    /\ applied' = SubSeq(applied, 1, Len(applied) - 1)
    /\ history' = SubSeq(history, 1, Len(history) - 1)
    /\ outcome' = [op |-> "unmake_move", exc |-> "none", msg |-> "",
                   arg |-> applied[Len(applied)], value |-> history[Len(history)]]
    /\ UNCHANGED <<turn, depth, memo, undone, schedule>>

\* Game.switch_player.
SwitchPlayer ==
    /\ outcome.op = "none"
    /\ turn' = not_in_turn_player(turn)
    /\ UNCHANGED <<board, board_hash, applied, history, outcome, depth, memo, undone, schedule>>

\* Game.possible_moves().
PossibleMoves ==
    /\ outcome.op = "none"
    /\ LET r == possible_moves(board, turn)
       IN outcome' = [op |-> "possible_moves", exc |-> r.exc, msg |-> r.msg,
                      arg |-> <<>>, value |-> r.value]
    /\ UNCHANGED <<board, turn, board_hash, applied, history, depth, memo, undone, schedule>>

\* utils.get_winner(score).
GetWinner(score) ==
    /\ outcome.op = "none"
    /\ outcome' = [op |-> "get_winner", exc |-> "none", msg |-> "",
                   arg |-> score, value |-> get_winner(score)]
    /\ UNCHANGED <<board, turn, board_hash, applied, history, depth, memo, undone, schedule>>

\* Game.is_over().
IsOver ==
    /\ outcome.op = "none"
    /\ outcome' = [op |-> "is_over", exc |-> "none", msg |-> "",
                   arg |-> <<>>, value |-> is_over(board)]
    /\ UNCHANGED <<board, turn, board_hash, applied, history, depth, memo, undone, schedule>>

\* The caller takes the returned value, or its except clause catches the
\* exception, and goes on.
Resume ==
    /\ outcome.op # "none"
    /\ outcome' = Idle
    /\ UNCHANGED <<board, turn, board_hash, applied, history, depth, memo, undone, schedule>>

Next ==
    \/ \E marbles \in InputMarbles, direction \in Direction : MakeMove(marbles, direction)
    \/ UnmakeMove
    \/ SwitchPlayer
    \/ PossibleMoves
    \/ IsOver
    \/ Resume

\* The terminal test alone.
NextScore ==
    \/ \E score \in Scores : GetWinner(score)
    \/ IsOver
    \/ Resume

Spec == Init /\ [][Next]_vars

\* Single moves from the layouts (two deep) and from the family.
SpecAll == (Init \/ InitPos) /\ [][Next]_vars

\* Moves made, taken back and the turn handed over, nothing else.
NextMoves ==
    \/ \E marbles \in InputMarbles, direction \in Direction : MakeMove(marbles, direction)
    \/ UnmakeMove
    \/ SwitchPlayer
    \/ Resume

\* The moves alone, on the layouts and on the positions of the family.
SpecMoves == (Init \/ InitPos) /\ [][NextMoves]_vars

\* The terminal test on late-game positions and on every score pair.
SpecScore == InitScore /\ [][NextScore]_vars

\* A call of Utils.neighbor(space, direction).
Neighbor(space, direction) ==
    /\ outcome.op = "none"
    /\ outcome' = [op |-> "neighbor", exc |-> "none", msg |-> "",
                   arg |-> <<space, direction>>,
                   value |-> neighbor(space, direction)]
    /\ UNCHANGED <<board, turn, board_hash, applied, history, depth, memo, undone, schedule>>

\* A call of utils.distance(space1, space2).
Distance(space1, space2) ==
    /\ outcome.op = "none"
    /\ LET r == distance(space1, space2)
       IN outcome' = [op |-> "distance", exc |-> r.exc, msg |-> "",
                      arg |-> <<space1, space2>>, value |-> r.value]
    /\ UNCHANGED <<board, turn, board_hash, applied, history, depth, memo, undone, schedule>>

\* A call of utils.line_from_to(from_space, to_space): an OFF argument raises
\* before any direction is tried.
LineFromTo(from_space, to_space) ==
    /\ outcome.op = "none"
    /\ outcome' =
          IF from_space = OFF \/ to_space = OFF
          THEN [op |-> "line_from_to", exc |-> "Exception",
                msg |-> "Spaces must not be Space.OFF",
                arg |-> <<from_space, to_space>>, value |-> NoLine]
          ELSE [op |-> "line_from_to", exc |-> "none", msg |-> "",
                arg |-> <<from_space, to_space>>,
                value |-> line_from_to(from_space, to_space)]
    /\ UNCHANGED <<board, turn, board_hash, applied, history, depth, memo, undone, schedule>>

\* What scoring leaves behind when it ended as r; arg notes the branch taken.
ScoringEnds(r) ==
    /\ outcome' = [op |-> "scoring", exc |-> r.exc, msg |-> "",
                   arg |-> <<IF board_hash \in DOMAIN heuristic_table
                             THEN "read" ELSE "computed">>,
                   value |-> r.value]
    /\ heuristic_table' = r.table
    /\ computed_from' = IF board_hash \in DOMAIN r.table \ DOMAIN heuristic_table
                        THEN (board_hash :> board) @@ computed_from
                        ELSE computed_from

\* Game.scoring(); the table takes no more than MaxMemo entries.
Scoring ==
    /\ outcome.op = "none"
    /\ \/ board_hash \in DOMAIN heuristic_table
       \/ Cardinality(DOMAIN heuristic_table) < MaxMemo
    /\ ScoringEnds(scoring(board, board_hash, heuristic_table))
    /\ UNCHANGED <<board, turn, board_hash, applied, history, depth, undone, schedule>>

\* Positions scoring is asked about: a layout from which up to MaxMemoLost
\* marbles of each colour are gone.
MemoBoards ==
    {RemoveFirst(RemoveFirst(ip, Marble_BLACK, i, 1), Marble_WHITE, j, 1) :
        ip \in InitialPosition, i \in 0..MaxMemoLost, j \in 0..MaxMemoLost}

\* A session that starts with an empty memo table: no heuristic_table.pkl.
InitMemo ==
    /\ board \in MemoBoards
    /\ turn \in Player
    /\ board_hash = HashBoard(board)
    /\ applied = <<>>
    /\ history = <<>>
    /\ outcome = Idle
    /\ depth = 1
    /\ heuristic_table = <<>>
    /\ computed_from = <<>>
    /\ undone = NoMove
    /\ schedule = NoSchedule

\* apply, undo and scoring in any order.
NextMemo ==
    \/ \E marbles \in InputMarbles, direction \in Direction : MakeMove(marbles, direction)
    \/ UnmakeMove
    \/ Scoring
    \/ Resume

SpecMemo == InitMemo /\ [][NextMemo]_vars

\* Spaces the accessors are called on: A1 and the sentinel.
AccessSpaces == {<<1, 1>>, OFF}

\* Game.get_marble(space).
GetMarble(space) ==
    /\ outcome.op = "none"
    /\ outcome' =
          IF space = OFF
          THEN [op |-> "get_marble", exc |-> "Exception",
                msg |-> "Cannot get state of Space.OFF",
                arg |-> <<space>>, value |-> <<>>]
          ELSE [op |-> "get_marble", exc |-> "none", msg |-> "",
                arg |-> <<space>>, value |-> get_marble(board, space)]
    /\ UNCHANGED <<board, turn, board_hash, applied, history, depth, memo, undone, schedule>>

\* Game.set_marble(space, marble), called from outside any move: the cell is
\* written, board_hash is not touched.
SetMarble(space, marble) ==
    /\ outcome.op = "none"
    /\ applied = <<>>
    /\ IF space = OFF
       THEN /\ outcome' = [op |-> "set_marble", exc |-> "Exception",
                           msg |-> "Cannot set state of Space.OFF",
                           arg |-> <<space, marble>>, value |-> <<>>]
            /\ UNCHANGED board
       ELSE /\ outcome' = [op |-> "set_marble", exc |-> "none", msg |-> "",
                           arg |-> <<space, marble>>, value |-> <<>>]
            /\ board' = set_marble(board, space, marble)
    /\ UNCHANGED <<turn, board_hash, applied, history, depth, memo, undone, schedule>>

\* Moves and direct calls of the accessors.
NextAccess ==
    \/ \E marbles \in InputMarbles, direction \in Direction : MakeMove(marbles, direction)
    \/ UnmakeMove
    \/ \E space \in AccessSpaces : GetMarble(space)
    \/ \E space \in AccessSpaces, marble \in Marble : SetMarble(space, marble)
    \/ Resume

\* One move and the accessors on the positions of the family.
SpecAccess == InitPos /\ [][NextAccess]_vars

\* The module-level geometry functions, called on every space.
NextGeo ==
    \/ \E space \in OnBoard, direction \in Direction : Neighbor(space, direction)
    \/ \E space1 \in OnBoard, space2 \in OnBoard : Distance(space1, space2)
    \/ \E from_space \in Space, to_space \in Space : LineFromTo(from_space, to_space)
    \/ Resume

\* The geometry functions next to a freshly constructed game.
InitGeo == Init /\ board = DEFAULT /\ turn = Player_BLACK

SpecGeo == InitGeo /\ [][NextGeo]_vars


\* Game.unmake_move(move) on the move applied last, the caller keeping the
\* instance afterwards.
UnmakeAndKeep ==
    /\ outcome.op = "none"
    /\ applied # <<>>
    /\ LET u == undo(board, applied[Len(applied)])
       IN /\ board' = u.board
          /\ board_hash' = u.board_hash
    /\ applied' = SubSeq(applied, 1, Len(applied) - 1)
    /\ history' = SubSeq(history, 1, Len(history) - 1)
    /\ undone' = applied[Len(applied)]
    /\ outcome' = [op |-> "unmake_move", exc |-> "none", msg |-> "",
                   arg |-> applied[Len(applied)], value |-> history[Len(history)]]
    /\ UNCHANGED <<turn, depth, memo, schedule>>

\* What a call of undo or apply on an instance in life-state was hands back;
\* value is the game as the call found it.
InstanceCall(op, exc, msg, move, was) ==
    [op |-> op, exc |-> exc, msg |-> msg,
     arg |-> [move |-> move, was |-> was], value |-> Snapshot]

\* Game.unmake_move(move) on an instance that was never applied: its log is
\* empty and its board_hash is the 0 of Move.__init__.
UndoUnapplied(marbles, direction) ==
    /\ outcome.op = "none"
    /\ LET u == undo(board, create_move(marbles, direction))
       IN /\ board' = u.board
          /\ board_hash' = u.board_hash
    /\ outcome' = InstanceCall("undo", "none", "", create_move(marbles, direction),
                               "unapplied")
    /\ UNCHANGED <<turn, applied, history, depth, memo, undone, schedule>>

\* Game.unmake_move(move) on the instance the caller has already undone.
UndoUndone ==
    /\ outcome.op = "none"
    /\ undone # NoMove
    /\ LET u == undo(board, undone)
       IN /\ board' = u.board
          /\ board_hash' = u.board_hash
    /\ outcome' = InstanceCall("undo", "none", "", undone, "undone")
    /\ UNCHANGED <<turn, applied, history, depth, memo, undone, schedule>>

\* What make_move leaves behind when it was handed the i-th applied instance
\* once more and apply ended as r: the instance keeps what apply wrote to it.
ApplyAppliedEnds(r, i) ==
    /\ board' = r.board
    /\ board_hash' = r.board_hash
    /\ applied' = [applied EXCEPT ![i] = r.move]
    /\ outcome' = InstanceCall("apply", r.exc, r.msg, applied[i], "applied")
    /\ UNCHANGED <<turn, history, depth, memo, undone, schedule>>

\* Game.make_move(move) on an instance that is applied and not undone.
ApplyApplied(i) ==
    /\ outcome.op = "none"
    /\ i \in 1..Len(applied)
    /\ Len(applied[i].cache) <= MaxLog
    /\ ApplyAppliedEnds(apply(board, board_hash, turn, applied[i]), i)

\* What make_move leaves behind when it was handed the undone instance and
\* apply ended as r.
ApplyUndoneEnds(r) ==
    /\ board' = r.board
    /\ board_hash' = r.board_hash
    /\ IF r.exc = "none"
       THEN /\ applied' = Append(applied, r.move)
            /\ history' = Append(history, Snapshot)
            /\ undone' = NoMove
       ELSE /\ UNCHANGED <<applied, history>>
            /\ undone' = r.move
    /\ outcome' = InstanceCall("apply", r.exc, r.msg, undone, "undone")
    /\ UNCHANGED <<turn, depth, memo, schedule>>

\* Game.make_move(move) on the instance the caller has already undone.
ApplyUndone ==
    /\ outcome.op = "none"
    /\ undone # NoMove
    /\ Len(applied) < depth
    /\ Len(undone.cache) <= MaxLog
    /\ ApplyUndoneEnds(apply(board, board_hash, turn, undone))

\* Arguments of the never-applied instances handed to unmake_move: one inline
\* and one broadside move.
FreshMoves ==
    {<<(<<(<<1, 1>>)>>), "NORTH_EAST">>, <<(<<(<<1, 1>>), (<<1, 2>>)>>), "NORTH_WEST">>}

\* make_move and unmake_move, on fresh instances and on instances the caller
\* has used before.
NextInstance ==
    \/ \E marbles \in InputMarbles, direction \in Direction : MakeMove(marbles, direction)
    \/ UnmakeMove
    \/ UnmakeAndKeep
    \/ \E fresh \in FreshMoves : UndoUnapplied(fresh[1], fresh[2])
    \/ UndoUndone
    \/ \E i \in 1..MaxDepth : ApplyApplied(i)
    \/ ApplyUndone
    \/ Resume

\* A game on the default layout, black to move, whose caller reuses Move
\* instances and keeps one move applied at a time.
InitInstance ==
    /\ board = DEFAULT
    /\ turn = Player_BLACK
    /\ board_hash = HashBoard(board)
    /\ applied = <<>>
    /\ history = <<>>
    /\ outcome = Idle
    /\ depth = 1
    /\ heuristic_table = <<>>
    /\ computed_from = <<>>
    /\ undone = NoMove
    /\ schedule = NoSchedule

SpecInstance == InitInstance /\ [][NextInstance]_vars


\* scoring alone, asked about the positions of the family, among them the
\* positions on which a colour has no marble.
NextEval ==
    \/ Scoring
    \/ Resume

SpecEval == InitPos /\ [][NextEval]_vars

\* list(game.generate_marble_lines(player)).
GenerateMarbleLines(player) ==
    /\ outcome.op = "none"
    /\ outcome' = [op |-> "generate_marble_lines", exc |-> "none", msg |-> "",
                   arg |-> player, value |-> generate_marble_lines(board, player)]
    /\ UNCHANGED <<board, turn, board_hash, applied, history, depth, memo, undone, schedule>>

\* Moves, and the lines of either player listed on every position reached.
NextLines ==
    \/ \E marbles \in InputMarbles, direction \in Direction : MakeMove(marbles, direction)
    \/ UnmakeMove
    \/ \E player \in Player : GenerateMarbleLines(player)
    \/ Resume

\* A game on a layout or on a position of the family, either player to move,
\* about to try one move.
InitLines ==
    /\ board \in InitialPosition \cup FamilyPositions
    /\ turn \in Player
    /\ board_hash = HashBoard(board)
    /\ applied = <<>>
    /\ history = <<>>
    /\ outcome = Idle
    /\ depth = 1
    /\ heuristic_table = <<>>
    /\ computed_from = <<>>
    /\ undone = NoMove
    /\ schedule = NoSchedule

\* The line generator on the layouts and on the positions of the family.
SpecLines == InitLines /\ [][NextLines]_vars

\* The search workers that share one game.
Worker == {1, 2}

\* Sequence s without its i-th item.
Without(s, i) == SubSeq(s, 1, i - 1) \o SubSeq(s, i + 1, Len(s))

\* The position in applied of the move worker w applied last, 0 when it has
\* none applied.
LastOf(w) ==
    IF \E k \in DOMAIN schedule.owner : schedule.owner[k] = w
    THEN CHOOSE k \in DOMAIN schedule.owner :
             /\ schedule.owner[k] = w
             /\ \A j \in DOMAIN schedule.owner : schedule.owner[j] = w => j <= k
    ELSE 0

\* What move.apply(game) by worker w leaves behind when it ended as r: an
\* exception goes to the worker, which then holds no applied move.
WorkerApplyEnds(w, r) ==
    /\ board' = r.board
    /\ board_hash' = r.board_hash
    /\ IF r.exc = "none"
       THEN /\ applied' = Append(applied, r.move)
            /\ history' = Append(history, Snapshot)
            /\ schedule' = [schedule EXCEPT !.owner = Append(@, w), !.applies = @ + 1]
       ELSE UNCHANGED <<applied, history, schedule>>
    /\ UNCHANGED <<turn, outcome, depth, memo, undone>>

\* Worker w applies a fresh move to the shared game; it holds one applied
\* move at a time. The call runs as a whole: the schedules in which calls
\* run one after the other are among those unserialised workers can produce.
WorkerApply(w, marbles, direction) ==
    /\ outcome.op = "none"
    /\ schedule.applies < MaxApplies
    /\ LastOf(w) = 0
    /\ WorkerApplyEnds(w, apply(board, board_hash, turn, create_move(marbles, direction)))

\* What move.undo(game) of the i-th applied move leaves behind when it ended
\* as u; the undo crosses when a move applied later is still applied.
WorkerUndoEnds(i, u) ==
    /\ board' = u.board
    /\ board_hash' = u.board_hash
    /\ applied' = Without(applied, i)
    /\ history' = Without(history, i)
    /\ schedule' = [schedule EXCEPT !.owner = Without(@, i),
                                    !.crossed = @ \/ i < Len(applied)]
    /\ UNCHANGED <<turn, outcome, depth, memo, undone>>

\* Worker w undoes the move it applied, whatever the other worker has done
\* since.
WorkerUndo(w) ==
    /\ outcome.op = "none"
    /\ LastOf(w) # 0
    /\ WorkerUndoEnds(LastOf(w), undo(board, applied[LastOf(w)]))

\* Two workers applying and undoing moves on one game, in any order.
NextWorkers ==
    \/ \E w \in Worker, marbles \in InputMarbles, direction \in Direction :
          WorkerApply(w, marbles, direction)
    \/ \E w \in Worker : WorkerUndo(w)

\* The shared game starts on the default layout, black to move.
SpecWorkers == InitInstance /\ [][NextWorkers]_vars

\* Positions of play: a layout from which MaxLost - 1 or MaxLost marbles of
\* each colour are gone, with every colouring of the first MaxPattern spaces
\* of a family line, both colours having between nine and fourteen marbles.
PlayBoards ==
    {b \in {Lay(RemoveFirst(RemoveFirst(ip, Marble_BLACK, i, 1), Marble_WHITE, j, 1),
                line, pattern, 1) :
               ip \in InitialPosition, i \in {MaxLost - 1, MaxLost},
               j \in {MaxLost - 1, MaxLost}, line \in FamilyLines,
               pattern \in [1..MaxPattern -> Marble]} :
        /\ CountMarble(b, Marble_BLACK) \in 9..14
        /\ CountMarble(b, Marble_WHITE) \in 9..14}

\* The loop of ai_battle.main: a move is made while the game is not over.
PlayMove ==
    /\ ~is_over(board)
    /\ \E marbles \in InputMarbles, direction \in Direction : MakeMove(marbles, direction)

NextPlay ==
    \/ PlayMove
    \/ SwitchPlayer
    \/ IsOver
    \/ Resume

\* A game on a layout or on a position of play, either player to move.
InitPlay ==
    /\ board \in InitialPosition \cup PlayBoards
    /\ turn \in Player
    /\ board_hash = HashBoard(board)
    /\ applied = <<>>
    /\ history = <<>>
    /\ outcome = Idle
    /\ depth = 2
    /\ heuristic_table = <<>>
    /\ computed_from = <<>>
    /\ undone = NoMove
    /\ schedule = NoSchedule

SpecPlay == InitPlay /\ [][NextPlay]_vars

\* game._count_threes(player).
CountThreesOf(player) ==
    /\ outcome.op = "none"
    /\ outcome' = [op |-> "_count_threes", exc |-> "none", msg |-> "",
                   arg |-> player, value |-> _count_threes(board, player)]
    /\ UNCHANGED <<board, turn, board_hash, applied, history, depth, memo, undone, schedule>>

\* What game._heuristic_score(player) hands back when it ended as r.
HeuristicScoreEnds(player, r) ==
    outcome' = [op |-> "_heuristic_score", exc |-> r.exc, msg |-> "",
                arg |-> player, value |-> r.value]

\* game._heuristic_score(player).
HeuristicScoreOf(player) ==
    /\ outcome.op = "none"
    /\ HeuristicScoreEnds(player, _heuristic_score(board, player))
    /\ UNCHANGED <<board, turn, board_hash, applied, history, depth, memo, undone, schedule>>

\* One move, and the heuristic terms of either colour on every position.
NextThrees ==
    \/ \E marbles \in InputMarbles, direction \in Direction : MakeMove(marbles, direction)
    \/ \E player \in Player : CountThreesOf(player)
    \/ \E player \in Player : HeuristicScoreOf(player)
    \/ Resume

\* The heuristic terms on the layouts and on the positions of the family.
SpecThrees == InitLines /\ [][NextThrees]_vars

\* Game.get_score().
GetScore ==
    /\ outcome.op = "none"
    /\ outcome' = [op |-> "get_score", exc |-> "none", msg |-> "",
                   arg |-> <<>>, value |-> get_score(board)]
    /\ UNCHANGED <<board, turn, board_hash, applied, history, depth, memo, undone, schedule>>

\* Game.is_illegal_move(marbles, direction).
IsIllegalMove(marbles, direction) ==
    /\ outcome.op = "none"
    /\ outcome' = [op |-> "is_illegal_move", exc |-> "none", msg |-> "",
                   arg |-> <<marbles, direction>>,
                   value |-> is_illegal_move(board, turn, marbles, direction)]
    /\ UNCHANGED <<board, turn, board_hash, applied, history, depth, memo, undone, schedule>>

\* Arguments of is_illegal_move: the inputs of create_move whose single space
\* is on the board.
QueryMarbles == {m \in InputMarbles : Len(m) = 2 \/ m[1] # OFF}

\* One move, and every query of the game on every position.
NextQuery ==
    \/ \E marbles \in InputMarbles, direction \in Direction : MakeMove(marbles, direction)
    \/ GetScore
    \/ \E marbles \in QueryMarbles, direction \in Direction : IsIllegalMove(marbles, direction)
    \/ \E player \in Player : GenerateMarbleLines(player)
    \/ PossibleMoves
    \/ IsOver
    \/ Scoring
    \/ Resume

\* The queries in a session that starts with an empty memo table.
SpecQuery == InitMemo /\ [][NextQuery]_vars

\* utils.space_to_board_indices(space).
SpaceToBoardIndices(space) ==
    /\ outcome.op = "none"
    /\ outcome' = [op |-> "space_to_board_indices", exc |-> "none", msg |-> "",
                   arg |-> space, value |-> space_to_board_indices(space)]
    /\ UNCHANGED <<board, turn, board_hash, applied, history, depth, memo, undone, schedule>>

\* The indices of every space of the board.
NextIndices ==
    \/ \E space \in OnBoard : SpaceToBoardIndices(space)
    \/ Resume

\* The index rule next to the board of a freshly constructed game.
SpecIndices == Init /\ [][NextIndices]_vars

(***************************************************************************)
(* Vocabulary of the properties                                            *)
(***************************************************************************)
\* Number of on-board spaces of b that hold marble m.
Count(b, m) == Cardinality({s \in OnBoard : get_marble(b, s) = m})

\* Length of the run of marble m on line that starts right after position
\* from.
RunLength(b, line, from, m) ==
    CHOOSE k \in 0..(Len(line) - from) :
        /\ \A i \in 1..k : get_marble(b, line[from + i]) = m
        /\ (k = Len(line) - from \/ get_marble(b, line[from + k + 1]) # m)

\* The mover's run and the opposing run ahead of caboose in direction, and
\* the space behind the opposing run (OFF at the edge), for mover t on b.
Ahead(b, t, caboose, direction) ==
    LET line == line_to_edge(caboose, direction)
        own == RunLength(b, line, 0, marble_of_player(t))
        opp == RunLength(b, line, own, marble_of_player(not_in_turn_player(t)))
    IN [line |-> line, own |-> own, opp |-> opp,
        behind |-> IF own + opp < Len(line) THEN line[own + opp + 1] ELSE OFF]

\* The board the i-th applied move produced.
After(i) == IF i < Len(history) THEN history[i + 1].board ELSE board

\* A make_move call has just been refused with an exception.
Refused == outcome.op = "make_move" /\ outcome.exc # "none"

(***************************************************************************)
(* C1 and C5: undo                                                         *)
(***************************************************************************)
\* C1: undoing an applied move (inline or broadside) restores every board
\* cell and the position hash to what they were before that move was applied.
C1_UndoExact ==
    outcome.op = "unmake_move" =>
        /\ \A s \in OnBoard : get_marble(board, s) = get_marble(outcome.value.board, s)
        /\ board_hash = outcome.value.board_hash

\* A sumito push onto the board (three logged cells) has been undone.
C1_Witness ==
    /\ outcome.op = "unmake_move"
    /\ outcome.arg.kind = "inline"
    /\ Len(outcome.arg.cache) = 3

RECURSIVE UnwindTo(_, _, _)
\* The game state after undoing the applied moves k, k - 1, ..., i in that
\* order, starting from st.
UnwindTo(st, k, i) ==
    IF k < i THEN st
    ELSE UnwindTo(undo(st.board, applied[k]), k - 1, i)

\* C5: undoing the applied moves in strict reverse order restores, for every
\* k up to the number of moves applied, the board and the position hash from
\* before the k-th most recent apply; and every undo actually made lands on
\* the board and hash from before its move.
C5_Backtracking ==
    /\ \A i \in 1..Len(applied) :
          LET st == UnwindTo([board |-> board, board_hash |-> board_hash],
                             Len(applied), i)
          IN st.board = history[i].board /\ st.board_hash = history[i].board_hash
    /\ outcome.op = "unmake_move" =>
          board = outcome.value.board /\ board_hash = outcome.value.board_hash

\* The second of two moves made by different players has been undone.
C5_Witness ==
    /\ outcome.op = "unmake_move"
    /\ Len(applied) = 1
    /\ outcome.value.turn # history[1].turn
    /\ outcome.value.board # history[1].board

(***************************************************************************)
(* C2: no partial application                                              *)
(***************************************************************************)
\* C2: when apply rejects a move with IllegalMove, every board cell, the
\* position hash and the turn owner are as they were before the call.
C2_NoPartialApply ==
    (outcome.op = "make_move" /\ outcome.exc = "IllegalMoveException") =>
        /\ \A s \in OnBoard : get_marble(board, s) = get_marble(outcome.value.board, s)
        /\ board_hash = outcome.value.board_hash
        /\ turn = outcome.value.turn

\* A push was rejected by the last test of the inline move, the one that
\* comes after everything else has been computed.
C2_Witness ==
    /\ outcome.op = "make_move"
    /\ outcome.exc = "IllegalMoveException"
    /\ outcome.msg = "Marbles must be pushed to an empty space or off the board"

(***************************************************************************)
(* C3: marble counts                                                       *)
(***************************************************************************)
\* The i-th applied move was an inline push whose opposing run reached the
\* edge, so that its last marble left the board.
PushedOff(i) ==
    /\ applied[i].kind = "inline"
    /\ LET a == Ahead(history[i].board, history[i].turn,
                      applied[i].caboose, applied[i].direction)
       IN a.opp > 0 /\ a.behind = OFF

\* C3: every applied move leaves the mover's count unchanged, and lowers the
\* opponent's count by exactly one when it pushed a marble off the board and
\* not at all otherwise; so no count exceeds its value before any earlier move.
C3_CountConservation ==
    \A i \in 1..Len(applied) :
        LET own == marble_of_player(history[i].turn)
            opp == marble_of_player(not_in_turn_player(history[i].turn))
        IN /\ Count(After(i), own) = Count(history[i].board, own)
           /\ Count(After(i), opp) =
                 Count(history[i].board, opp) - (IF PushedOff(i) THEN 1 ELSE 0)
           /\ Count(board, own) <= Count(history[i].board, own)
           /\ Count(board, opp) <= Count(history[i].board, opp)

\* A marble has been pushed off the board.
C3_Witness ==
    /\ applied # <<>>
    /\ PushedOff(Len(applied))
    /\ Count(board, marble_of_player(not_in_turn_player(history[Len(applied)].turn)))
          < Count(history[Len(applied)].board,
                  marble_of_player(not_in_turn_player(history[Len(applied)].turn)))

(***************************************************************************)
(* C6 and C8: the inline rules                                             *)
(***************************************************************************)
\* C6: an inline move that meets an opposing run is applied only when the
\* opposing run is strictly shorter than the mover's own run of at most three
\* and the space behind the opposing run is off the board or does not hold a
\* marble of the mover; a move that meets an opposing run and breaks one of
\* these conditions is rejected with IllegalMove.
C6_Sumito ==
    /\ \A i \in 1..Len(applied) :
          applied[i].kind = "inline" =>
              LET a == Ahead(history[i].board, history[i].turn,
                             applied[i].caboose, applied[i].direction)
              IN a.opp > 0 =>
                    /\ a.opp < a.own
                    /\ a.own <= 3
                    /\ \/ a.behind = OFF
                       \/ get_marble(history[i].board, a.behind)
                             # marble_of_player(history[i].turn)
    /\ (Refused /\ outcome.arg.kind = "inline" /\ outcome.arg.caboose # OFF) =>
          LET a == Ahead(board, turn, outcome.arg.caboose, outcome.arg.direction)
          IN (a.own > 0 /\ a.opp > 0 /\
                (\/ a.opp >= a.own
                 \/ a.own > 3
                 \/ (a.behind # OFF /\ get_marble(board, a.behind) = marble_of_player(turn))))
             => outcome.exc = "IllegalMoveException"

\* Three marbles have pushed two.
C6_Witness ==
    /\ applied # <<>>
    /\ applied[Len(applied)].kind = "inline"
    /\ LET a == Ahead(history[Len(applied)].board, history[Len(applied)].turn,
                      applied[Len(applied)].caboose, applied[Len(applied)].direction)
       IN a.own = 3 /\ a.opp = 2

\* C8: an inline move whose run of the mover's marbles from the trailing
\* marble is four or longer is never applied and is rejected with IllegalMove,
\* whatever lies ahead of the run.
C8_LongRun ==
    /\ \A i \in 1..Len(applied) :
          applied[i].kind = "inline" =>
              Ahead(history[i].board, history[i].turn,
                    applied[i].caboose, applied[i].direction).own <= 3
    /\ (Refused /\ outcome.arg.kind = "inline" /\ outcome.arg.caboose # OFF) =>
          (Ahead(board, turn, outcome.arg.caboose, outcome.arg.direction).own >= 4
              => outcome.exc = "IllegalMoveException")

\* A run of four with an empty space ahead has been rejected.
C8_Witness ==
    /\ Refused
    /\ outcome.arg.kind = "inline"
    /\ outcome.arg.caboose # OFF
    /\ outcome.exc = "IllegalMoveException"
    /\ LET a == Ahead(board, turn, outcome.arg.caboose, outcome.arg.direction)
       IN /\ a.own = 4
          /\ a.own < Len(a.line)
          /\ get_marble(board, a.line[a.own + 1]) = Marble_BLANK

(***************************************************************************)
(* C7: the broadside rule                                                  *)
(***************************************************************************)
RECURSIVE Step(_, _, _)
\* The space k steps from s in direction e.
Step(s, e, k) == IF k = 0 THEN s ELSE Step(_neighbor(s, e), e, k - 1)

\* The direction opposite to e.
Opposite(e) ==
    CHOOSE o \in Direction : _neighbor(_neighbor(<<5, 5>>, e), o) = <<5, 5>>

\* The broadside rule: the boundaries a and c are on the board and are the
\* ends of a straight line of two or three spaces whose axis is not that of
\* direction d, every space of the line holds a marble of t, and every space
\* one step from the line in direction d is on the board and empty.
BroadsideLegal(b, t, a, c, d) ==
    /\ a # OFF
    /\ c # OFF
    /\ \E e \in Direction : \E n \in 2..3 :
          /\ Step(a, e, n - 1) = c
          /\ d # e
          /\ d # Opposite(e)
          /\ \A k \in 0..(n - 1) :
                /\ get_marble(b, Step(a, e, k)) = marble_of_player(t)
                /\ _neighbor(Step(a, e, k), d) # OFF
                /\ get_marble(b, _neighbor(Step(a, e, k), d)) = Marble_BLANK

\* C7: a broadside move is applied exactly when the broadside rule holds:
\* every applied one satisfied it and every refused one is rejected with
\* IllegalMove and broke it.
C7_Broadside ==
    /\ \A i \in 1..Len(applied) :
          applied[i].kind = "broadside" =>
              BroadsideLegal(history[i].board, history[i].turn,
                             applied[i].boundaries[1], applied[i].boundaries[2],
                             applied[i].direction)
    /\ (Refused /\ outcome.arg.kind = "broadside") =>
          /\ outcome.exc = "IllegalMoveException"
          /\ ~BroadsideLegal(board, turn, outcome.arg.boundaries[1],
                             outcome.arg.boundaries[2], outcome.arg.direction)

\* A line of three has moved sideways.
C7_Witness ==
    /\ applied # <<>>
    /\ applied[Len(applied)].kind = "broadside"
    /\ Len(applied[Len(applied)].cache) = 6

(***************************************************************************)
(* C9: terminal detection                                                  *)
(***************************************************************************)
\* The marble count of player p in score, which is (black, white).
CountOf(score, p) == IF p = Player_BLACK THEN score[1] ELSE score[2]

\* is_over() answers true exactly when a colour has eight marbles on the board.
IsOverExact ==
    outcome.op = "is_over" =>
        (outcome.value <=> (Count(board, Marble_BLACK) = 8 \/ Count(board, Marble_WHITE) = 8))

\* C9 as stated: for every score pair get_winner returns the opponent of the
\* player whose marble count is 8 and no winner when no count is 8, and
\* is_over() is true exactly when a count of the board is 8.
C9_OpponentOfEveryLoser ==
    /\ outcome.op = "get_winner" =>
          /\ \A p \in Player :
                CountOf(outcome.arg, p) = 8 => outcome.value = not_in_turn_player(p)
          /\ (\A p \in Player : CountOf(outcome.arg, p) # 8) => outcome.value = NoWinner
    /\ IsOverExact

\* C9, amended: get_winner returns white whenever black's count is 8, also
\* when white's count is 8 too; it returns black when white's count is 8 and
\* black's is not; it returns no winner otherwise. (8, 14) gives white,
\* (14, 8) black, (9, 9) no winner. is_over() is true exactly when a count of
\* the board is 8.
C9_TerminalDetection ==
    /\ outcome.op = "get_winner" =>
          /\ CountOf(outcome.arg, Player_BLACK) = 8 => outcome.value = Player_WHITE
          /\ (CountOf(outcome.arg, Player_WHITE) = 8 /\ CountOf(outcome.arg, Player_BLACK) # 8)
                => outcome.value = Player_BLACK
          /\ (\A p \in Player : CountOf(outcome.arg, p) # 8) => outcome.value = NoWinner
          /\ outcome.arg = <<8, 14>> => outcome.value = Player_WHITE
          /\ outcome.arg = <<14, 8>> => outcome.value = Player_BLACK
          /\ outcome.arg = <<9, 9>> => outcome.value = NoWinner
    /\ IsOverExact

\* get_winner has answered for the score in which both counts are 8.
C9_Witness ==
    /\ outcome.op = "get_winner"
    /\ outcome.arg = <<8, 8>>
    /\ outcome.value = Player_WHITE

(***************************************************************************)
(* C4 and C10: the move generator                                          *)
(***************************************************************************)
\* The moves a caller can put together for the lines of marbles of player t.
Candidates(b, t) ==
    {create_move(generate_marble_lines(b, t)[i], d) :
        i \in 1..Len(generate_marble_lines(b, t)), d \in Direction}

\* The members of seq.
Range(seq) == {seq[i] : i \in 1..Len(seq)}

\* C4: possible_moves returns exactly the legal moves of the side to move:
\* every move it returns applies without an exception and every move over a
\* line of the side to move that applies without an exception is returned.
C4_GeneratorExact ==
    outcome.op = "possible_moves" =>
        /\ outcome.exc = "none"
        /\ \A mv \in Range(outcome.value) : _apply(board, turn, mv).exc = "none"
        /\ \A mv \in Candidates(board, turn) :
              _apply(board, turn, mv).exc = "none" => mv \in Range(outcome.value)

\* C10: from the standard initial layout with black to move possible_moves
\* returns 44 moves, 34 of them inline and 10 broadside.
C10_DefaultMoveCount ==
    (outcome.op = "possible_moves" /\ applied = <<>>
        /\ board = DEFAULT /\ turn = Player_BLACK) =>
        /\ outcome.exc = "none"
        /\ Len(outcome.value) = 44
        /\ Cardinality({i \in 1..Len(outcome.value) : outcome.value[i].kind = "inline"}) = 34
        /\ Cardinality({i \in 1..Len(outcome.value) : outcome.value[i].kind = "broadside"}) = 10

(***************************************************************************)
(* C11 and C12: two scenarios                                              *)
(***************************************************************************)
\* The i-th applied move was black's inline move with caboose A1 in direction
\* north-east on the default layout.
DefaultA1NorthEast(i) ==
    /\ history[i].board = DEFAULT
    /\ history[i].turn = Player_BLACK
    /\ applied[i].kind = "inline"
    /\ applied[i].caboose = <<1, 1>>
    /\ applied[i].direction = "NORTH_EAST"

\* The spaces on which boards b and c differ.
Changed(b, c) == {s \in OnBoard : get_marble(b, s) # get_marble(c, s)}

\* C11 as stated: after black's inline move A1 north-east on the default
\* layout A1 is empty, the space one step north-east of A1 is black and no
\* other cell has changed.
C11_OnlyA1Changes ==
    \A i \in 1..Len(applied) :
        DefaultA1NorthEast(i) =>
            /\ get_marble(After(i), <<1, 1>>) = Marble_BLANK
            /\ get_marble(After(i), _neighbor(<<1, 1>>, "NORTH_EAST")) = Marble_BLACK
            /\ Changed(history[i].board, After(i)) \subseteq {<<1, 1>>}

\* C11, amended: after black's inline move A1 north-east on the default
\* layout A1 is empty, B2 and C3 are black as before, D4 (the first empty
\* space of the line, three steps north-east of A1) is black, and no cell
\* other than A1 and D4 has changed.
C11_LineOfThreeAdvances ==
    \A i \in 1..Len(applied) :
        DefaultA1NorthEast(i) =>
            /\ get_marble(After(i), <<1, 1>>) = Marble_BLANK
            /\ get_marble(After(i), <<2, 2>>) = Marble_BLACK
            /\ get_marble(After(i), <<3, 3>>) = Marble_BLACK
            /\ get_marble(After(i), <<4, 4>>) = Marble_BLACK
            /\ Changed(history[i].board, After(i)) = {<<1, 1>>, <<4, 4>>}

\* Black has played A1 north-east on the default layout.
C11_Witness == applied # <<>> /\ DefaultA1NorthEast(1)

\* The i-th applied move was an inline move of three marbles against two
\* opposing marbles with an empty on-board space behind them.
ThreeAgainstTwo(i) ==
    /\ applied[i].kind = "inline"
    /\ LET a == Ahead(history[i].board, history[i].turn,
                      applied[i].caboose, applied[i].direction)
       IN /\ a.own = 3
          /\ a.opp = 2
          /\ a.behind # OFF
          /\ get_marble(history[i].board, a.behind) = Marble_BLANK

\* C12: a move of three marbles against two opposing marbles followed by an
\* empty on-board space leaves the caboose space empty, the next three spaces
\* with marbles of the mover, the two after them with marbles of the
\* opponent, and both marble counts as they were.
C12_ThreePushTwo ==
    \A i \in 1..Len(applied) :
        ThreeAgainstTwo(i) =>
            LET line == line_to_edge(applied[i].caboose, applied[i].direction)
                own == marble_of_player(history[i].turn)
                opp == marble_of_player(not_in_turn_player(history[i].turn))
            IN /\ get_marble(After(i), line[1]) = Marble_BLANK
               /\ \A k \in 2..4 : get_marble(After(i), line[k]) = own
               /\ \A k \in 5..6 : get_marble(After(i), line[k]) = opp
               /\ Count(After(i), own) = Count(history[i].board, own)
               /\ Count(After(i), opp) = Count(history[i].board, opp)

\* Three marbles have pushed two onto an empty space of the board.
C12_Witness == applied # <<>> /\ ThreeAgainstTwo(Len(applied))

(***************************************************************************)
(* C13: the turn owner                                                     *)
(***************************************************************************)
\* The opponent of player p.
Opponent(p) == IF p = Player_BLACK THEN Player_WHITE ELSE Player_BLACK

\* C13 as stated: exactly one of black and white is to move at any time, and
\* once a move has been applied the side to move is the opponent of the
\* player who made it.
C13_TurnAlternates ==
    /\ [](turn \in Player)
    /\ [][Len(applied') > Len(applied) => turn' = Opponent(turn)]_vars

\* C13, amended: exactly one of black and white is to move at any time;
\* applying a move (make_move, Move.apply) leaves the turn owner unchanged,
\* and so does undoing one; the turn owner changes only in a step that
\* changes nothing else (switch_player, which the callers invoke after a
\* move), and it changes to the opponent.
C13_TurnSwitchedByCaller ==
    /\ [](turn \in Player)
    /\ [][/\ Len(applied') # Len(applied) => turn' = turn
          /\ turn' # turn =>
                /\ turn' = Opponent(turn)
                /\ UNCHANGED <<board, board_hash, applied, history, outcome>>]_vars

\* A second move has been applied by the player who made the first, no
\* switch_player in between.
C13_Witness ==
    /\ Len(applied) = 2
    /\ history[1].turn = history[2].turn
    /\ turn = history[1].turn

(***************************************************************************)
(* C14: the position hash                                                  *)
(***************************************************************************)
\* C14: after construction, after every apply and after every undo of the
\* most recently applied move, board_hash is the hash of the current board;
\* so a board that recurs carries the hash it carried before, whoever is to
\* move and whatever was played in between.
C14_HashOfBoard ==
    /\ board_hash = HashBoard(board)
    /\ \A i \in 1..Len(history) :
          /\ history[i].board_hash = HashBoard(history[i].board)
          /\ history[i].board = board => history[i].board_hash = board_hash
    /\ outcome.op = "unmake_move" =>
          (outcome.value.board = board => outcome.value.board_hash = board_hash)

\* The second of two applied moves has been undone; the board, and its hash,
\* are those the first move produced.
C14_Witness ==
    /\ outcome.op = "unmake_move"
    /\ Len(applied) = 1
    /\ board # history[1].board
    /\ board_hash # history[1].board_hash

(***************************************************************************)
(* C16: neighbours and reversed directions                                 *)
(***************************************************************************)
\* The direction that points the other way: three places further round the
\* compass.
Reverse(d) ==
    LET i == CHOOSE k \in 1..Len(DirectionSeq) : DirectionSeq[k] = d
    IN DirectionSeq[((i + 2) % 6) + 1]

\* C16: for every on-board space s and direction d, when neighbor(s, d) is a
\* space t other than OFF, neighbor(t, reverse of d) is s; the same holds of
\* the coordinate rule _neighbor the table is built from.
C16_NeighborSymmetry ==
    outcome.op = "neighbor" =>
        LET s == outcome.arg[1]
            d == outcome.arg[2]
            t == outcome.value
        IN /\ t # OFF => neighbor(t, Reverse(d)) = s
           /\ _neighbor(s, d) # OFF => _neighbor(_neighbor(s, d), Reverse(d)) = s

\* neighbor has returned an on-board space for a westward step.
C16_Witness ==
    /\ outcome.op = "neighbor"
    /\ outcome.arg[2] = "WEST"
    /\ outcome.value \in OnBoard

(***************************************************************************)
(* C17, C18: distance                                                      *)
(***************************************************************************)
RECURSIVE StepsTo(_, _, _)
\* The number of rounds of neighbour steps after which b is reached, starting
\* from the set of spaces reached after k steps.
StepsTo(reached, b, k) ==
    IF b \in reached THEN k
    ELSE StepsTo(reached \cup
                    ({neighbor(s, d) : s \in reached, d \in Direction} \ {OFF}),
                 b, k + 1)

\* The least number of neighbour steps from a to b.
HexDistance(a, b) == StepsTo({a}, b, 0)

\* C17: for every pair of on-board spaces, distance(a, b) returns the least
\* number of neighbour steps from a to b.
C17_HexDistance ==
    outcome.op = "distance" =>
        /\ outcome.exc = "none"
        /\ outcome.value = HexDistance(outcome.arg[1], outcome.arg[2])

\* distance(A1, E3) has returned 6; four steps lead from A1 to E3.
C17_TooFar ==
    /\ outcome.op = "distance"
    /\ outcome.arg = <<(<<1, 1>>), (<<5, 3>>)>>
    /\ outcome.exc = "none"
    /\ outcome.value = 6
    /\ HexDistance(<<1, 1>>, <<5, 3>>) = 4

\* distance(A4, I8) has raised KeyError: no space is named I12.
C17_KeyError ==
    /\ outcome.op = "distance"
    /\ outcome.arg = <<(<<1, 4>>), (<<9, 8>>)>>
    /\ outcome.exc = "KeyError"

\* C18: distance(a, a) is 0 for every on-board space a, and for every pair of
\* on-board spaces distance(a, b) and distance(b, a) return the same number.
C18_ZeroAndSymmetric ==
    outcome.op = "distance" =>
        LET a == outcome.arg[1]
            b == outcome.arg[2]
        IN /\ outcome.exc = "none"
           /\ a = b => outcome.value = 0
           /\ distance(b, a) = Returned(outcome.value)

\* Where distance returns, it returns 0 for a space and itself and the same
\* number for a pair in either order; where it raises, it raises in either
\* order.
C18_SymmetricWhereReturned ==
    outcome.op = "distance" =>
        LET a == outcome.arg[1]
            b == outcome.arg[2]
        IN /\ a = b => outcome.exc = "none" /\ outcome.value = 0
           /\ distance(b, a) = [exc |-> outcome.exc, value |-> outcome.value]

(***************************************************************************)
(* C19: line_from_to                                                       *)
(***************************************************************************)
\* The spaces p[1], ..., p[n] form a walk from a to b in direction d.
IsPath(p, a, b, d) ==
    /\ Len(p) >= 2
    /\ p[1] = a
    /\ p[Len(p)] = b
    /\ \A i \in 1..(Len(p) - 1) : p[i + 1] = _neighbor(p[i], d)

\* Direction d leads from a to b: b is one to eight steps of d away from a
\* on the coordinate grid, and on the board.
WalkReaches(a, b, d) ==
    \E n \in 1..8 :
        LET u == _neighbor(<<5, 5>>, d)
        IN /\ b = <<a[1] + n * (u[1] - 5), a[2] + n * (u[2] - 5)>>
           /\ b \in OnBoard

\* C19: for on-board a and b, line_from_to(a, b) returns a path from a to b
\* and its direction, every element the neighbour of the one before in that
\* direction, whenever some direction leads from a to b; it returns the
\* no-line result without raising when a = b or no direction leads from a to
\* b; it raises exactly when an argument is OFF.
C19_LineFromTo ==
    outcome.op = "line_from_to" =>
        LET a == outcome.arg[1]
            b == outcome.arg[2]
            r == outcome.value
        IN /\ outcome.exc # "none" <=> (a = OFF \/ b = OFF)
           /\ outcome.exc = "none" =>
                 IF \E d \in Direction : WalkReaches(a, b, d)
                 THEN /\ r.direction \in Direction
                      /\ IsPath(r.line, a, b, r.direction)
                 ELSE r = NoLine
           /\ (outcome.exc = "none" /\ a = b) => r = NoLine

\* line_from_to has returned a path of four spaces.
C19_Witness ==
    /\ outcome.op = "line_from_to"
    /\ outcome.exc = "none"
    /\ Len(outcome.value.line) = 4

\* line_from_to has returned the no-line result for two different spaces.
C19_WitnessNoLine ==
    /\ outcome.op = "line_from_to"
    /\ outcome.exc = "none"
    /\ outcome.arg[1] # outcome.arg[2]
    /\ outcome.value = NoLine

(***************************************************************************)
(* C20: the accessors and the sentinel                                     *)
(***************************************************************************)
\* A call of get_marble or set_marble on OFF has just ended.
AccessedOff ==
    /\ outcome.op \in {"get_marble", "set_marble"}
    /\ outcome.arg[1] = OFF

\* No write has gone to OFF: the change-log of every applied move, which
\* receives the space of every write before the write is made, names only
\* spaces of the board, and a move raises the error of the accessors only
\* when its caboose is OFF, before any write, the board as it was.
NoWriteToOff ==
    /\ \A i \in 1..Len(applied) :
          \A k \in 1..Len(applied[i].cache) : applied[i].cache[k][1] \in OnBoard
    /\ (outcome.op = "make_move" /\ outcome.exc = "Exception") =>
          /\ outcome.arg.kind = "inline"
          /\ outcome.arg.caboose = OFF
          /\ board = outcome.value.board

\* C20: get_marble and set_marble called on OFF raise an exception and leave
\* the board as it was; no move ever writes a marble to OFF.
C20_AccessorsRejectOff ==
    /\ [](AccessedOff => outcome.exc = "Exception")
    /\ [][AccessedOff' => board' = board]_vars
    /\ []NoWriteToOff

\* set_marble has been called on OFF with a black marble.
C20_Witness ==
    /\ outcome.op = "set_marble"
    /\ outcome.arg = <<OFF, Marble_BLACK>>
    /\ outcome.exc = "Exception"

\* A move has pushed a marble off the board: the write to the space behind
\* the opposing run was skipped.
C20_WitnessPushedOff ==
    /\ applied # <<>>
    /\ PushedOff(1)

(***************************************************************************)
(* C15: the memo table of scoring                                          *)
(***************************************************************************)
\* (black count - white count) * 150 plus the heuristic adjustment of b.
FreshScore(b) ==
    IntPlusRat(150 * (Count(b, Marble_BLACK) - Count(b, Marble_WHITE)),
               heuristic_score(b).value)

\* Every key of the table is the hash of the board it was computed from;
\* every entry enters the table as the adjustment of that board, and no entry
\* is removed or overwritten afterwards.
EntriesKept ==
    /\ [](/\ DOMAIN computed_from = DOMAIN heuristic_table
          /\ \A h \in DOMAIN heuristic_table : h = HashBoard(computed_from[h]))
    /\ [][\A h \in DOMAIN heuristic_table' :
             IF h \in DOMAIN heuristic_table
             THEN /\ heuristic_table'[h] = heuristic_table[h]
                  /\ computed_from'[h] = computed_from[h]
             ELSE heuristic_table'[h] = heuristic_score(computed_from'[h]).value]_vars
    /\ [][DOMAIN heuristic_table \subseteq DOMAIN heuristic_table']_vars

OutOfTurnCall ==
    /\ outcome.op \in {"undo", "apply"}
    /\ \/ outcome.op = "undo" /\ outcome.arg.was \in {"unapplied", "undone"}
       \/ outcome.op = "apply" /\ outcome.arg.was \in {"applied", "undone"}

\* C21: an undo of a never-applied or already-undone instance, and an apply
\* of an already-applied or already-undone instance, leave the board and the
\* position hash of the game as they were.
C21_SingleUse ==
    OutOfTurnCall =>
        /\ board = outcome.value.board
        /\ board_hash = outcome.value.board_hash

\* undo of an instance that was never applied has set the hash of the game
\* to 0, the board untouched.
C21_UndoUnappliedZeroesHash ==
    /\ outcome.op = "undo"
    /\ outcome.arg.was = "unapplied"
    /\ board = outcome.value.board
    /\ outcome.value.board_hash # 0
    /\ board_hash = 0

\* apply of an instance that was applied and undone before has moved the
\* marbles again.
C21_UndoneAppliedAgain ==
    /\ outcome.op = "apply"
    /\ outcome.arg.was = "undone"
    /\ outcome.exc = "none"
    /\ board # outcome.value.board

(***************************************************************************)
(* C22: scoring a position without marbles of one colour                   *)
(***************************************************************************)
\* C22: evaluating a position does not fail, also when a colour has no marble
\* on the board.
C22_NoDivisionByZero ==
    outcome.op = "scoring" => outcome.exc = "none"

\* scoring has raised ZeroDivisionError on a board without white marbles that
\* holds black marbles, and has stored nothing.
C22_ZeroDivision ==
    /\ outcome.op = "scoring"
    /\ outcome.exc = "ZeroDivisionError"
    /\ Count(board, Marble_WHITE) = 0
    /\ Count(board, Marble_BLACK) > 0
    /\ heuristic_table = <<>>

(***************************************************************************)
(* C23: the legality predicates and apply                                  *)
(***************************************************************************)
\* The marbles argument a move was created from.
MarblesOf(mv) == IF mv.kind = "inline" THEN <<mv.caboose>> ELSE mv.boundaries

\* Every space the move was created from is on the board.
OnBoardMove(mv) == \A k \in 1..Len(MarblesOf(mv)) : MarblesOf(mv)[k] \in OnBoard

\* C23: for every board, side to move and move made of on-board spaces,
\* is_illegal_move returns true exactly when applying the move raises
\* IllegalMoveException: it returns false for every move that was applied and
\* true for every move that was refused.
C23_LegalityAgrees ==
    /\ \A i \in 1..Len(applied) :
          OnBoardMove(applied[i]) =>
              ~is_illegal_move(history[i].board, history[i].turn,
                               MarblesOf(applied[i]), applied[i].direction)
    /\ (Refused /\ OnBoardMove(outcome.arg)) =>
          /\ outcome.exc = "IllegalMoveException"
          /\ is_illegal_move(outcome.value.board, outcome.value.turn,
                             MarblesOf(outcome.arg), outcome.arg.direction)

\* After one applied move a broadside move of two on-board marbles has been
\* refused.
C23_Witness ==
    /\ Refused
    /\ outcome.arg.kind = "broadside"
    /\ OnBoardMove(outcome.arg)
    /\ Len(applied) = 1
    /\ applied[1].kind = "inline"

(***************************************************************************)
(* C24: the cells an inline move changes                                   *)
(***************************************************************************)
\* What the inline move from caboose in direction did to board before when
\* it produced board after, mover t: the caboose is empty, the space past the
\* mover's run holds the mover's marble, the space past a pushed run that
\* stays on the board holds the opponent's marble, nothing else has changed,
\* and both runs stand one step further.
InlineFrame(before, after, t, caboose, direction) ==
    LET a == Ahead(before, t, caboose, direction)
        own == marble_of_player(t)
        opp == marble_of_player(not_in_turn_player(t))
        pushed == IF a.opp > 0 /\ a.behind # OFF THEN {a.behind} ELSE {}
    IN /\ get_marble(after, caboose) = Marble_BLANK
       /\ get_marble(after, a.line[a.own + 1]) = own
       /\ \A s \in pushed : get_marble(after, s) = opp
       /\ Changed(before, after) \subseteq ({caboose, a.line[a.own + 1]} \cup pushed)
       /\ Cardinality(Changed(before, after)) <= 3
       /\ \A k \in 1..a.own : get_marble(after, a.line[k + 1]) = own
       /\ \A k \in 1..a.opp :
             a.own + k + 1 <= Len(a.line) => get_marble(after, a.line[a.own + k + 1]) = opp

\* C24: a legal inline move changes at most three cells: the caboose becomes
\* empty, the space just past the mover's run becomes the mover's marble and,
\* when opposing marbles are pushed onto the board, the space just past the
\* opposing run becomes the opponent's marble; every other cell is unchanged,
\* so the mover's run and any pushed run end up one step further in the
\* direction of the move.
C24_InlineFrame ==
    \A i \in 1..Len(applied) :
        applied[i].kind = "inline" =>
            InlineFrame(history[i].board, After(i), history[i].turn,
                        applied[i].caboose, applied[i].direction)

\* Two marbles have pushed one onto an empty space of the board: three cells
\* have changed.
C24_Witness ==
    /\ Len(applied) = 1
    /\ applied[1].kind = "inline"
    /\ Ahead(history[1].board, history[1].turn,
             applied[1].caboose, applied[1].direction).own = 2
    /\ Ahead(history[1].board, history[1].turn,
             applied[1].caboose, applied[1].direction).opp = 1
    /\ Cardinality(Changed(history[1].board, board)) = 3

\* A single marble has stepped onto an empty space: two cells have changed.
C24_WitnessTwoCells ==
    /\ Len(applied) = 1
    /\ applied[1].kind = "inline"
    /\ Ahead(history[1].board, history[1].turn,
             applied[1].caboose, applied[1].direction).own = 1
    /\ Cardinality(Changed(history[1].board, board)) = 2

(***************************************************************************)
(* C25: the cells a broadside move changes                                 *)
(***************************************************************************)
\* The spaces of the straight line whose ends are a and c.
LineSpaces(a, c) ==
    LET en == CHOOSE en \in Direction \X (2..3) : Step(a, en[1], en[2] - 1) = c
    IN {Step(a, en[1], k) : k \in 0..(en[2] - 1)}

\* The orders in which the spaces of set S can be processed.
Orders(S) ==
    {o \in [1..Cardinality(S) -> S] : \A j, k \in 1..Cardinality(S) : o[j] = o[k] => j = k}

\* C25: after a legal broadside move every space of the line is empty and
\* every destination space holds the mover's marble, no other cell has
\* changed, neither marble count has changed, and the second loop of the move
\* gives the same board in whatever order it processes the marbles of the
\* line.
C25_BroadsideFrame ==
    \A i \in 1..Len(applied) :
        applied[i].kind = "broadside" =>
            LET before == history[i].board
                mover == history[i].turn
                d == applied[i].direction
                sources == LineSpaces(applied[i].boundaries[1], applied[i].boundaries[2])
                destinations == {_neighbor(s, d) : s \in sources}
            IN /\ \A s \in sources : get_marble(After(i), s) = Marble_BLANK
               /\ \A s \in destinations : get_marble(After(i), s) = marble_of_player(mover)
               /\ Changed(before, After(i)) = sources \cup destinations
               /\ get_score(After(i)) = get_score(before)
               /\ \A o \in Orders(sources) :
                     BroadsideShift(Running(before, <<>>), mover,
                                    [k \in 1..Cardinality(sources) |-> o[k]], d, 1).board
                        = After(i)

\* A line of two has moved sideways: four cells have changed.
C25_Witness ==
    /\ Len(applied) = 1
    /\ applied[1].kind = "broadside"
    /\ Cardinality(Changed(history[1].board, board)) = 4

(***************************************************************************)
(* C26: the mover's run at the edge of the board                           *)
(***************************************************************************)
\* The mover's run ahead of the caboose of inline move mv fills the line up to
\* the edge of the board, on board b with t to move.
RunFillsLine(b, t, mv) ==
    /\ mv.kind = "inline"
    /\ mv.caboose \in OnBoard
    /\ Ahead(b, t, mv.caboose, mv.direction).own
          = Len(Ahead(b, t, mv.caboose, mv.direction).line)

\* C26: an inline move whose own run reaches the edge of the board with
\* nothing beyond it is refused with IllegalMoveException, a single marble
\* stepping off the edge and a run of two or three ending at the edge
\* included, and is_illegal_move answers true for it; so no applied move is
\* such a move and every applied move leaves the mover's number of marbles
\* unchanged.
C26_OwnRunAtEdgeRejected ==
    /\ (Refused /\ RunFillsLine(outcome.value.board, outcome.value.turn, outcome.arg)) =>
          /\ outcome.exc = "IllegalMoveException"
          /\ is_illegal_move(outcome.value.board, outcome.value.turn,
                             <<outcome.arg.caboose>>, outcome.arg.direction)
          /\ Ahead(outcome.value.board, outcome.value.turn,
                   outcome.arg.caboose, outcome.arg.direction).own <= 3 =>
                outcome.msg = "Own marbles must not be moved off the board"
    /\ \A i \in 1..Len(applied) :
          /\ ~RunFillsLine(history[i].board, history[i].turn, applied[i])
          /\ Count(After(i), marble_of_player(history[i].turn))
                = Count(history[i].board, marble_of_player(history[i].turn))

\* A single marble on the edge has been refused the step off the board.
C26_Witness ==
    /\ Refused
    /\ RunFillsLine(outcome.value.board, outcome.value.turn, outcome.arg)
    /\ Len(line_to_edge(outcome.arg.caboose, outcome.arg.direction)) = 1

\* A run of three ending at the edge has been refused.
C26_WitnessRunOfThree ==
    /\ Refused
    /\ RunFillsLine(outcome.value.board, outcome.value.turn, outcome.arg)
    /\ Len(line_to_edge(outcome.arg.caboose, outcome.arg.direction)) = 3

(***************************************************************************)
(* C27: the lines generate_marble_lines yields                             *)
(***************************************************************************)
\* The straight runs of n adjacent spaces of the set own, each as the set of
\* its spaces.
RunsOf(own, n) ==
    {R \in {{Step(a, e, k) : k \in 0..(n - 1)} : a \in own, e \in Direction} :
        R \subseteq own}

\* Yield y is a pair whose two spaces are the ends of run R.
SpansRun(y, R) ==
    /\ Len(y) = 2
    /\ \E e \in Direction : \E n \in 2..3 :
          /\ Step(y[1], e, n - 1) = y[2]
          /\ {Step(y[1], e, k) : k \in 0..(n - 1)} = R

AtStart == board = DEFAULT /\ board_hash = HashBoard(DEFAULT)

\* Every move the workers applied has been undone.
AllUndone == schedule.applies > 0 /\ applied = <<>>

\* C28: the damage comes from the interleaving and from nothing else. When
\* every applied move has been undone and no undo ran while a later move of
\* the other worker was still applied, the board and the position hash are
\* those of the start; C28_Witness is the interleaving after which every
\* applied move has been undone and the board differs from the start.
C28_OnlyCrossingCorrupts == (AllUndone /\ ~schedule.crossed) => AtStart

\* Both workers have undone their moves, one undo crossed the other worker's
\* move, and the board is not the board of the start.
C28_Witness == AllUndone /\ schedule.crossed /\ board # DEFAULT

\* Both workers have undone their moves, the board is the board of the start
\* and the position hash is not its hash.
C28_WitnessHash ==
    AllUndone /\ schedule.crossed /\ board = DEFAULT /\ board_hash # HashBoard(DEFAULT)

\* With workers that hold one move each, undoing everything always restores
\* the start: the statement the interleaving refutes.
C28_AlwaysRestored == AllUndone => AtStart

(***************************************************************************)
(* C29: the marble counts of a game in play                                *)
(***************************************************************************)
\* With black and white the two marble counts of a position and over the
\* answer of is_over() on it: both counts are between eight and fourteen, and
\* the game is over exactly when one of them is eight.
InPlay(black, white, over) ==
    /\ black \in 8..14
    /\ white \in 8..14
    /\ over <=> (black = 8 \/ white = 8)

\* A move that took the counts (b0, w0) to (b1, w1) started where no count
\* was eight, took at most one marble off the board and added none.
OneMarbleAtMost(b0, w0, b1, w1) ==
    /\ b0 # 8 /\ w0 # 8
    /\ b1 \in {b0 - 1, b0}
    /\ w1 \in {w0 - 1, w0}
    /\ b1 + w1 >= b0 + w0 - 1

\* C29: each of the three layouts has fourteen marbles of each colour; in a
\* game in which moves are made only while is_over() is false, every position
\* has between eight and fourteen marbles of each colour, a move takes at most
\* one marble off the board and adds none, every move started from a position
\* where no count was eight, and is_over() is true as soon as a count is
\* eight. Positions are looked at when no refused call is pending: a refused
\* make_move leaves the position it found.
C29_CountsInRange ==
    /\ (outcome.op = "none" /\ applied = <<>> /\ board \in InitialPosition) =>
          Count(board, Marble_BLACK) = 14 /\ Count(board, Marble_WHITE) = 14
    /\ outcome.op = "none" =>
          InPlay(Count(board, Marble_BLACK), Count(board, Marble_WHITE), is_over(board))
    /\ (outcome.op = "none" /\ applied # <<>>) =>
          OneMarbleAtMost(Count(history[Len(history)].board, Marble_BLACK),
                          Count(history[Len(history)].board, Marble_WHITE),
                          Count(board, Marble_BLACK), Count(board, Marble_WHITE))
    /\ outcome.op = "is_over" => outcome.value = is_over(board)

\* A capture has taken a colour from nine marbles to eight, and is_over() has
\* answered true.
C29_Witness ==
    /\ outcome.op = "is_over"
    /\ outcome.value
    /\ applied # <<>>
    /\ \E m \in {Marble_BLACK, Marble_WHITE} :
          /\ Count(history[Len(history)].board, m) = 9
          /\ Count(board, m) = 8

(***************************************************************************)
(* C30: distance on every pair of spaces                                   *)
(***************************************************************************)
\* C30: distance(a, b) returns an integer for every pair of on-board spaces:
\* the point it recurses through is an existing space and it never raises.
C30_DistanceTotal ==
    outcome.op = "distance" =>
        /\ outcome.exc = "none"
        /\ outcome.value \in 0..16

\* distance(I8, A4) has raised KeyError as well: the lookup fails in whichever
\* order the two spaces are given.
C30_Raises ==
    /\ outcome.op = "distance"
    /\ outcome.arg = <<(<<9, 8>>), (<<1, 4>>)>>
    /\ outcome.exc = "KeyError"

(***************************************************************************)
(* C31: a rejected apply and the undo data of the instance                 *)
(***************************************************************************)
\* An apply of an instance that is applied and not undone has just been
\* rejected.
RejectedSecondApply ==
    /\ outcome.op = "apply"
    /\ outcome.arg.was = "applied"
    /\ outcome.exc # "none"

\* C31: a rejected apply leaves the change-log and the remembered hash of the
\* Move instance as they were, so the undo of an applied move restores the
\* board and the position hash the move found, also after a rejected second
\* apply of the same instance.
C31_RejectedApplyKeepsUndoData ==
    /\ RejectedSecondApply =>
          \E i \in 1..Len(applied) :
              /\ applied[i].cache = outcome.arg.move.cache
              /\ applied[i].board_hash = outcome.arg.move.board_hash
    /\ outcome.op = "unmake_move" =>
          /\ board = outcome.value.board
          /\ board_hash = outcome.value.board_hash

\* The second apply was rejected, the change-log is as it was and the
\* remembered hash is now the hash of the position after the first apply.
C31_RememberedHashOverwritten ==
    /\ RejectedSecondApply
    /\ Len(applied) = 1
    /\ applied[1].cache = outcome.arg.move.cache
    /\ applied[1].board_hash # outcome.arg.move.board_hash
    /\ applied[1].board_hash = board_hash

\* The move has then been undone: the board is the board it found, the
\* position hash is still the hash of the position after the move.
C31_UndoLeavesHash ==
    /\ outcome.op = "unmake_move"
    /\ board = outcome.value.board
    /\ board_hash # outcome.value.board_hash
    /\ board_hash = outcome.arg.board_hash
    /\ board_hash # 0

(***************************************************************************)
(* C32: the threes term of the heuristic                                   *)
(***************************************************************************)
\* The spaces of the board that hold a marble of player.
Holding(player) == {s \in OnBoard : get_marble(board, s) = marble_of_player(player)}

\* C32: the count of threes of a colour is the number of straight lines of
\* exactly three adjacent spaces that all hold the colour's marble, each such
\* triple counted once, so that a straight run of four counts two; that number
\* is the one _count_threes returns and the one _heuristic_score multiplies
\* by the weight of threes.
C32_Threes ==
    /\ outcome.op = "_count_threes" =>
          outcome.value = Cardinality(RunsOf(Holding(outcome.arg), 3))
    /\ outcome.op = "_heuristic_score" =>
          /\ outcome.exc = (IF Holding(outcome.arg) = {} THEN "ZeroDivisionError" ELSE "none")
          /\ outcome.exc = "none" =>
                outcome.value =
                    HeuristicValue(Cardinality(RunsOf(Holding(outcome.arg), 3)),
                                   Cardinality({s \in Holding(outcome.arg) :
                                                   _is_isolated(board, s)}),
                                   SumDistanceCenter(board, outcome.arg, 1),
                                   Cardinality(Holding(outcome.arg))).value

\* Four marbles of a colour give two threes: they stand in a straight run of
\* four.
C32_Witness ==
    /\ outcome.op = "_count_threes"
    /\ Cardinality(Holding(outcome.arg)) = 4
    /\ outcome.value = 2

\* The heuristic of a colour with a run of three among its fourteen marbles
\* has been computed on a layout.
C32_WitnessHeuristic ==
    /\ outcome.op = "_heuristic_score"
    /\ outcome.exc = "none"
    /\ board \in InitialPosition
    /\ RunsOf(Holding(outcome.arg), 3) # {}

(***************************************************************************)
(* C33: the queries change nothing but the memo table                      *)
(***************************************************************************)
\* The operations that ask and do not move.
QueryOps ==
    {"get_score", "is_illegal_move", "generate_marble_lines", "possible_moves",
     "is_over", "scoring"}

\* Table after is table before, or table before with one entry more, under
\* hash h, which had none.
SameOrOneMore(before, after, h) ==
    \/ after = before
    \/ /\ h \notin DOMAIN before
       /\ DOMAIN after = DOMAIN before \cup {h}
       /\ \A k \in DOMAIN before : after[k] = before[k]

\* C33: get_score, is_illegal_move, generate_marble_lines, the generation of
\* the legal moves, is_over and scoring leave every cell of the board, the
\* turn and the position hash as they were, and the applied moves with them;
\* scoring alone touches the memo table, and only to add an entry under the
\* current hash when the table has none for it.
C33_QueriesReadOnly ==
    [][(outcome.op = "none" /\ outcome'.op \in QueryOps) =>
          /\ board' = board
          /\ turn' = turn
          /\ board_hash' = board_hash
          /\ applied' = applied
          /\ outcome'.op # "scoring" => heuristic_table' = heuristic_table
          /\ outcome'.op = "scoring" =>
                /\ SameOrOneMore(heuristic_table, heuristic_table', board_hash)
                /\ board_hash \in DOMAIN heuristic_table =>
                      heuristic_table' = heuristic_table]_vars

\* scoring has added a second entry to the table, after a move.
C33_Witness ==
    /\ outcome.op = "scoring"
    /\ outcome.arg = <<"computed">>
    /\ applied # <<>>
    /\ Cardinality(DOMAIN heuristic_table) = 2
    /\ board_hash \in DOMAIN heuristic_table

(***************************************************************************)
(* C34: line_from_to in both directions                                    *)
(***************************************************************************)
\* Sequence p back to front.
BackToFront(p) == [i \in 1..Len(p) |-> p[Len(p) + 1 - i]]

\* The directions in which a walk of neighbour steps from a comes to b.
Connecting(a, b) == {d \in Direction : \E n \in 1..8 : Step(a, d, n) = b}

\* C34: when line_from_to(a, b) returns the path p and the direction d,
\* line_from_to(b, a) returns p back to front and the direction opposite to
\* d; when it returns no line, so does line_from_to(b, a); and at most one
\* direction leads from a to b.
C34_Reversible ==
    (outcome.op = "line_from_to" /\ outcome.exc = "none") =>
        LET a == outcome.arg[1]
            b == outcome.arg[2]
            r == outcome.value
        IN /\ Cardinality(Connecting(a, b)) <= 1
           /\ IF r = NoLine
              THEN line_from_to(b, a) = NoLine
              ELSE /\ Connecting(a, b) = {r.direction}
                   /\ line_from_to(b, a) =
                         [line |-> BackToFront(r.line), direction |-> Opposite(r.direction)]

\* line_from_to has returned a path of three spaces to the south west, the
\* fourth direction of the enumeration.
C34_Witness ==
    /\ outcome.op = "line_from_to"
    /\ outcome.exc = "none"
    /\ outcome.value.direction = "SOUTH_WEST"
    /\ Len(outcome.value.line) = 3

(***************************************************************************)
(* C35: the shape of the change-log                                        *)
(***************************************************************************)
\* Change-log cache names every space at most once, and each of its entries
\* holds what its space held on board before.
LogOfBefore(cache, before) ==
    /\ \A j, k \in 1..Len(cache) : cache[j][1] = cache[k][1] => j = k
    /\ \A k \in 1..Len(cache) :
          /\ cache[k][1] \in OnBoard
          /\ cache[k][2] = get_marble(before, cache[k][1])

\* C35: the change-log of every applied move names each space at most once,
\* in two or three entries for an inline move and in four or six for a
\* broadside move, each entry holding what the space held before the move;
\* the logged spaces are the cells the move changed, and replaying the log
\* from its first entry to its last on the board after the move gives the
\* board before the move.
C35_ChangeLog ==
    \A i \in 1..Len(applied) :
        /\ LogOfBefore(applied[i].cache, history[i].board)
        /\ applied[i].kind = "inline" => Len(applied[i].cache) \in {2, 3}
        /\ applied[i].kind = "broadside" => Len(applied[i].cache) \in {4, 6}
        /\ {applied[i].cache[k][1] : k \in 1..Len(applied[i].cache)}
              = Changed(history[i].board, After(i))
        /\ Replay(After(i), applied[i].cache, 1) = history[i].board

\* An inline move that pushed a marble onto the board is applied: its log has
\* three entries, the first of which held no marble.
C35_Witness ==
    /\ Len(applied) = 1
    /\ applied[1].kind = "inline"
    /\ Len(applied[1].cache) = 3
    /\ applied[1].cache[1][2] = Marble_BLANK

\* An inline move that pushed a marble off the board is applied: its log has
\* two entries, the first of which held the opponent's marble.
C35_WitnessPushedOff ==
    /\ Len(applied) = 1
    /\ applied[1].kind = "inline"
    /\ Len(applied[1].cache) = 2
    /\ applied[1].cache[1][2] = marble_of_player(not_in_turn_player(turn))

(***************************************************************************)
(* C36: spaces and cells of the grid                                       *)
(***************************************************************************)
\* Lengths of the rows of the grid, row I first.
RowLengths == <<5, 6, 7, 8, 9, 8, 7, 6, 5>>

\* The cells of the grid, as 0-based index pairs.
Cells == {c \in (0..8) \X (0..8) : c[2] < RowLengths[c[1] + 1]}

\* C36: space_to_board_indices maps the 61 spaces of the board one-to-one
\* onto the cells of the grid of nine rows, of lengths 5, 6, 7, 8, 9, 8, 7,
\* 6 and 5 from row I down to row A, which is the shape of the board of the
\* game: the index pair of every space is in range, no two spaces share a
\* cell, every cell is the cell of a space, and row A is the last row.
C36_IndicesBijective ==
    /\ Len(board) = 9
    /\ \A x \in 1..9 : Len(board[x]) = RowLengths[x]
    /\ Cardinality(OnBoard) = 61
    /\ outcome.op = "space_to_board_indices" =>
          /\ outcome.value \in Cells
          /\ outcome.value[2] + 1 \in 1..Len(board[outcome.value[1] + 1])
          /\ outcome.value[1] = 9 - outcome.arg[1]
          /\ \A s \in OnBoard :
                space_to_board_indices(s) = outcome.value => s = outcome.arg
          /\ {space_to_board_indices(s) : s \in OnBoard} = Cells

\* The indices of I9, the last space of the shortest row, have been computed:
\* row 0, column 4.
C36_Witness ==
    /\ outcome.op = "space_to_board_indices"
    /\ outcome.arg = <<9, 9>>
    /\ outcome.value = <<0, 4>>

====
